---- MODULE Spec2Model ----
(***************************************************************************)
(* A model of the matching / bucketing / unification scripts of the        *)
(* AI hiring recommendation repository:                                    *)
(*   match_candidates.py   the bucket classifier of the match loop         *)
(*   unify_resumes.py      re-keying of resume chunks to a canonical id    *)
(*   upload_to_pinecone.py build_vector_id / slugify, batch upsert loop    *)
(*   jd_to_pinecone.py     per-file JD upsert loop                         *)
(*   resume_to_pinecone.py per-file resume upsert loop                     *)
(*   the configuration check at the top of the ingestion scripts          *)
(*   resume_to_pinecone.py main and the retry loop of get_embeddings_batch *)
(*   match_candidates.py   the results of one query                        *)
(*   upload_to_pinecone.py deterministic_candidate_id                      *)
(*   match_candidates_llm_v2.py cosine_sim                                 *)
(* Python strings are TLA+ strings; Len, \o and SubSeq act on them.        *)
(***************************************************************************)
EXTENDS Integers, Sequences, FiniteSets, TLC

VARIABLES
    \* match_candidates.py
    score, thr, bucket,
    \* unify_resumes.py
    ns, ns0, from_pref, to_id, delete_old, batch_size, found_ids, all_new_ids,
    upserted, bi, confirm, pcU,
    \* build_vector_id followed by the unify_resumes id rewriting
    cand, chunk_index, section, target, vid, rewritten,
    \* the ingestion loops (upload_to_pinecone, jd_to_pinecone, resume_to_pinecone)
    script, items, pos, sub, store, writeLog, pcI,
    \* the start of a script: the configuration check and the calls after it
    cfgScript, env, todo, calls, status, reported, pcC,
    \* resume_to_pinecone.py main: the files, the embedding retry loop, the output
    files, fpos, upsertedFiles, printed, embedDown, emb, pcR,
    \* match_candidates.py main: the matches of one query and the results built
    matches, mpos, results,
    \* deterministic_candidate_id called on two seed objects
    objA, objB, method, idA, idB,
    \* match_candidates_llm_v2.py: cosine_sim on two vectors
    va, vb, has_np, computed, sim, simRev, simSelf,
    \* list_candidate_vectors.py: the fetched vectors, the groups, the report
    fetched, gpos, mapping, report, pcA,
    \* inspect_jd.py: the reply of the model, its recovery and its parsing
    raw, cleaned, attempts, printedRaw, llmCalls, pcJ,
    \* inspect_jd.py: the parsed reply, its results list and the printing of it
    parsed, parsed_list, ipos, rows, pcN,
    \* resume_to_pinecone.py: chunk_text
    document_text, words, chunk_size_words, overlap, chunks, ci, pcT,
    \* resume_to_pinecone.py: one resume file ingested twice
    pstore, pstore0, afterFirst, file_cid, nchunks, prun, tpos, upsertLog,
    firstReturned, pcP

varsB == <<score, thr, bucket>>
varsU == <<ns, ns0, from_pref, to_id, delete_old, batch_size, found_ids,
           all_new_ids, upserted, bi, confirm, pcU>>
varsV == <<cand, chunk_index, section, target, vid, rewritten>>
varsI == <<script, items, pos, sub, store, writeLog, pcI>>
varsC == <<cfgScript, env, todo, calls, status, reported, pcC>>
\* the variables of the parts of the model added after the ingestion loops
varsR == <<files, fpos, upsertedFiles, printed, embedDown, emb, pcR>>
varsM == <<matches, mpos, results>>
varsD == <<objA, objB, method, idA, idB>>
varsK == <<va, vb, has_np, computed, sim, simRev, simSelf>>
varsA == <<fetched, gpos, mapping, report, pcA>>
\* the variables of the parts added last, and those of all the parts before them
varsJ == <<raw, cleaned, attempts, printedRaw, llmCalls, pcJ>>
varsN == <<parsed, parsed_list, ipos, rows, pcN>>
varsT == <<document_text, words, chunk_size_words, overlap, chunks, ci, pcT>>
varsP == <<pstore, pstore0, afterFirst, file_cid, nchunks, prun, tpos, upsertLog,
           firstReturned, pcP>>
varsY == <<varsA, varsJ, varsN, varsT, varsP>>
varsW == <<varsB, varsU, varsV, varsI, varsC, varsR, varsM, varsD, varsK>>
exceptA == <<varsW, varsJ, varsN, varsT, varsP>>
exceptJ == <<varsW, varsA, varsN, varsT, varsP>>
exceptN == <<varsW, varsA, varsJ, varsT, varsP>>
exceptT == <<varsW, varsA, varsJ, varsN, varsP>>
exceptP == <<varsW, varsA, varsJ, varsN, varsT>>
varsX == <<varsC, varsR, varsM, varsD, varsK, varsY>>
vars == <<varsB, varsU, varsV, varsI, varsX>>

(***************************************************************************)
(* Python string primitives                                                *)
(***************************************************************************)
\* s.startswith(p)
StartsWith(s, p) == Len(p) <= Len(s) /\ SubSeq(s, 1, Len(p)) = p

\* the positions at which part occurs in s (1-based)
Occurrences(s, part) ==
    {i \in 1..(Len(s) + 1) :
        i + Len(part) - 1 <= Len(s) /\ SubSeq(s, i, i + Len(part) - 1) = part}

\* part in s
Contains(s, part) == Occurrences(s, part) # {}

\* s.find(part), 1-based; 0 when absent
Find(s, part) ==
    IF Occurrences(s, part) = {} THEN 0
    ELSE CHOOSE i \in Occurrences(s, part) : \A j \in Occurrences(s, part) : i <= j

\* s.split(sep, 1)[1]: what follows the first occurrence of sep
AfterFirst(s, sep) == SubSeq(s, Find(s, sep) + Len(sep), Len(s))

\* s.replace(old, new, 1): only the first occurrence is replaced
ReplaceFirst(s, old, new) ==
    IF ~Contains(s, old) THEN s
    ELSE SubSeq(s, 1, Find(s, old) - 1) \o new
         \o SubSeq(s, Find(s, old) + Len(old), Len(s))

\* s.replace(old, new): every occurrence is replaced, left to right
RECURSIVE ReplaceAll(_, _, _)
ReplaceAll(s, old, new) ==
    IF old = "" \/ ~Contains(s, old) THEN s
    ELSE SubSeq(s, 1, Find(s, old) - 1) \o new
         \o ReplaceAll(SubSeq(s, Find(s, old) + Len(old), Len(s)), old, new)

\* a whitespace character (the ASCII ones that occur in the inputs)
IsSpace(c) == c \in {" ", "\t", "\n"}

RECURSIVE LStrip(_)
LStrip(s) ==
    IF s = "" THEN s
    ELSE IF IsSpace(SubSeq(s, 1, 1)) THEN LStrip(SubSeq(s, 2, Len(s)))
    ELSE s

RECURSIVE RStrip(_)
RStrip(s) ==
    IF s = "" THEN s
    ELSE IF IsSpace(SubSeq(s, Len(s), Len(s))) THEN RStrip(SubSeq(s, 1, Len(s) - 1))
    ELSE s

\* s.lstrip()
LStripOnly(s) == LStrip(s)

\* s.strip()
Strip(s) == RStrip(LStrip(s))

UpperCase == "ABCDEFGHIJKLMNOPQRSTUVWXYZ"
LowerCase == "abcdefghijklmnopqrstuvwxyz"
Digits == "0123456789"

\* c.lower() of one character
LowerChar(c) ==
    IF Contains(UpperCase, c)
    THEN SubSeq(LowerCase, Find(UpperCase, c), Find(UpperCase, c))
    ELSE c

\* s.lower(), character by character
RECURSIVE Lower(_)
Lower(s) ==
    IF s = "" THEN s
    ELSE IF Len(s) = 1 THEN LowerChar(s)
    ELSE Lower(SubSeq(s, 1, Len(s) \div 2)) \o Lower(SubSeq(s, Len(s) \div 2 + 1, Len(s)))

\* the length of the first word of s, s not starting with whitespace
RECURSIVE WordLen(_)
WordLen(s) ==
    IF s = "" \/ IsSpace(SubSeq(s, 1, 1)) THEN 0
    ELSE 1 + WordLen(SubSeq(s, 2, Len(s)))

\* sep.join(s.split())
RECURSIVE JoinWords(_, _)
JoinWords(s, sep) ==
    LET t == LStrip(s)
        rest == LStrip(SubSeq(t, WordLen(t) + 1, Len(t)))
    IN IF t = "" THEN ""
       ELSE IF rest = "" THEN SubSeq(t, 1, WordLen(t))
       ELSE SubSeq(t, 1, WordLen(t)) \o sep \o JoinWords(rest, sep)

\* str(n) of an integer
RECURSIVE IntToStr(_)
IntToStr(n) ==
    IF n < 0 THEN "-" \o IntToStr(0 - n)
    ELSE IF n < 10 THEN SubSeq(Digits, n + 1, n + 1)
    ELSE IntToStr(n \div 10) \o SubSeq(Digits, (n % 10) + 1, (n % 10) + 1)

(***************************************************************************)
(* match_candidates.py: the bucket classifier                              *)
(* Scores and thresholds are in hundredths of a score unit.                *)
(***************************************************************************)
HIRED_THRESHOLD == 75
SHORTLIST_THRESHOLD == 55
REJECTED_THRESHOLD == 30

MaxScore == 4

ConfiguredThresholds ==
    [hired |-> HIRED_THRESHOLD, shortlist |-> SHORTLIST_THRESHOLD,
     rejected |-> REJECTED_THRESHOLD]

\* the threshold triples with hired >= shortlist >= rejected
ThresholdTriples ==
    {t \in [hired : 0..MaxScore, shortlist : 0..MaxScore, rejected : 0..MaxScore] :
        t.hired >= t.shortlist /\ t.shortlist >= t.rejected}

\* the scores of the worked example of the thresholds 0.75 / 0.55 / 0.30
ExampleScores == {10, 30, 40, 55, 60, 75, 80}

\* the chain with > in place of >= in its first test
BucketStrictHired(s, t) ==
    IF s > t.hired THEN "H"
    ELSE IF s >= t.shortlist THEN "S"
    ELSE IF s <= t.rejected THEN "R"
    ELSE "N"

\* the chain with its second and third tests exchanged
BucketRejectedFirst(s, t) ==
    IF s >= t.hired THEN "H"
    ELSE IF s <= t.rejected THEN "R"
    ELSE IF s >= t.shortlist THEN "S"
    ELSE "N"

\* the chain with < in place of <= in its third test
BucketStrictRejected(s, t) ==
    IF s >= t.hired THEN "H"
    ELSE IF s >= t.shortlist THEN "S"
    ELSE IF s < t.rejected THEN "R"
    ELSE "N"

\* the if / elif chain of main
Bucket(s, t) ==
    IF s >= t.hired THEN "H"
    ELSE IF s >= t.shortlist THEN "S"
    ELSE IF s <= t.rejected THEN "R"
    ELSE "N"

InitB ==
    /\ bucket = "none"
    /\ \/ thr \in ThresholdTriples /\ score \in (-1)..(MaxScore + 1)
       \/ thr = ConfiguredThresholds /\ score \in ExampleScores

IdleB == score = 0 /\ thr = ConfiguredThresholds /\ bucket = "idle"

\* one iteration of the loop over the matches: the score is bucketed
Classify ==
    /\ bucket = "none"
    /\ bucket' = Bucket(score, thr)
    /\ UNCHANGED <<score, thr>>
    /\ UNCHANGED <<varsU, varsV, varsI, varsX>>

(***************************************************************************)
(* unify_resumes.py                                                        *)
(* The namespace is a function from record id to [values, metadata]; a     *)
(* metadata mapping is a set of <<key, value>> pairs.                      *)
(***************************************************************************)
MaxIds == 3
MaxBatch == 2

\* the records a Resumes namespace may hold before the run
PoolIds ==
    {"cand1", "cand1_cand1", "cand1_chunk1_summary", "cand1_chunk2_skills",
     "cand1_chunky_chunk3_skills", "cand12_chunk1_summary", "other_chunk1_summary"}

PoolRecord(id) ==
    CASE id = "cand1" ->
           [values |-> <<1, 1>>, metadata |-> {}]
      [] id = "cand1_cand1" ->
           [values |-> <<1, 2>>, metadata |-> {<<"candidate_id", "cand1">>}]
      [] id = "cand1_chunk1_summary" ->
           [values |-> <<2, 1>>,
            metadata |-> {<<"candidate_id", "cand1">>, <<"section", "summary">>}]
      [] id = "cand1_chunk2_skills" ->
           [values |-> <<2, 2>>,
            metadata |-> {<<"candidate_id", "cand1">>, <<"section", "skills">>}]
      [] id = "cand1_chunky_chunk3_skills" ->
           [values |-> <<2, 3>>,
            metadata |-> {<<"candidate_id", "cand1_chunky">>, <<"section", "skills">>}]
      [] id = "cand12_chunk1_summary" ->
           [values |-> <<3, 1>>,
            metadata |-> {<<"candidate_id", "cand12">>, <<"section", "summary">>}]
      [] OTHER ->
           [values |-> <<4, 1>>,
            metadata |-> {<<"candidate_id", "other">>, <<"section", "summary">>}]

FromPrefixes == {"cand1", "cand12"}
ToIds == {"cand_final", "cand1"}

\* what the operator may type at the confirmation prompt
ConfirmInputs == {"DELETE", " DELETE ", "DELETE\t", "delete", "DELETED", "yes", ""}

\* meta[key] = value
SetKey(meta, key, value) == {p \in meta : p[1] # key} \cup {<<key, value>>}

\* the orders in which the store may list a set of ids
Orders(S) ==
    {f \in [1..Cardinality(S) -> S] : \A i, j \in 1..Cardinality(S) : f[i] = f[j] => i = j}

\* chunks(lst, n): the k-th batch, k from 0
BatchOf(lst, n, k) ==
    SubSeq(lst, k * n + 1, IF (k + 1) * n <= Len(lst) THEN (k + 1) * n ELSE Len(lst))

NumBatches(lst, n) == (Len(lst) + n - 1) \div n

\* the derivation without the _chunk branch
NewIdPrefixReplace(old_id, from, to) == ReplaceFirst(old_id, from, to)

\* the derivation with replace() called without its count argument
NewIdReplaceEvery(old_id, from, to) ==
    IF Contains(old_id, "_chunk")
    THEN to \o "_chunk" \o AfterFirst(old_id, "_chunk")
    ELSE ReplaceAll(old_id, from, to)

\* the new_id derivation of the re-upsert loop
NewId(old_id, from, to) ==
    IF Contains(old_id, "_chunk")
    THEN to \o "_chunk" \o AfterFirst(old_id, "_chunk")
    ELSE ReplaceFirst(old_id, from, to)

\* the tuple without the candidate_id assignment
NewRecordKeepsCandidateId(old_id, rec, from, to) ==
    [old |-> old_id, id |-> NewId(old_id, from, to), values |-> rec.values,
     metadata |-> rec.metadata, src |-> rec]

\* the tuple appended to to_upsert for one fetched record
NewRecord(old_id, rec, from, to) ==
    [old |-> old_id, id |-> NewId(old_id, from, to), values |-> rec.values,
     metadata |-> SetKey(rec.metadata, "candidate_id", to), src |-> rec]

\* the ids of a batch that the loop does not skip: fetched, with values
Usable(n, old_id) == old_id \in DOMAIN n /\ n[old_id].values # <<>>

\* to_upsert of one batch
ToUpsert(n, batch, from, to) ==
    LET kept == SelectSeq(batch, LAMBDA i : Usable(n, i))
    IN [k \in 1..Len(kept) |-> NewRecord(kept[k], n[kept[k]], from, to)]

\* ix.upsert(vectors=ups): a later tuple of the same id overwrites an earlier
\* one; a call that raises writes nothing
Upsert(n, ups) ==
    LET newIds == {ups[k].id : k \in 1..Len(ups)}
        last(i) == CHOOSE k \in 1..Len(ups) :
                      ups[k].id = i /\ \A j \in 1..Len(ups) : ups[j].id = i => j <= k
    IN [i \in DOMAIN n \cup newIds |->
          IF i \in newIds
          THEN [values |-> ups[last(i)].values, metadata |-> ups[last(i)].metadata]
          ELSE n[i]]

\* ix.delete(ids=b)
Delete(n, b) == [i \in DOMAIN n \ {b[k] : k \in 1..Len(b)} |-> n[i]]

\* the comparison made case-insensitive
ConfirmedIgnoringCase(text) == Strip(text) \in {"DELETE", "delete"}

\* confirm.strip() == "DELETE"
Confirmed(text) == Strip(text) = "DELETE"

InitU ==
    /\ \E S \in SUBSET PoolIds :
          /\ Cardinality(S) <= MaxIds
          /\ ns = [i \in S |-> PoolRecord(i)]
    /\ ns0 = ns
    /\ from_pref \in FromPrefixes
    \* the run re-keys a prefix under another id than the prefix itself
    /\ to_id \in ToIds \ {from_pref}
    /\ delete_old \in BOOLEAN
    /\ batch_size \in 1..MaxBatch
    /\ found_ids = <<>>
    /\ all_new_ids = <<>>
    /\ upserted = <<>>
    /\ bi = 0
    /\ confirm = "none"
    /\ pcU = "list"

IdleU ==
    /\ ns = <<>> /\ ns0 = <<>> /\ from_pref = "" /\ to_id = "" /\ delete_old = FALSE
    /\ batch_size = 1 /\ found_ids = <<>> /\ all_new_ids = <<>> /\ upserted = <<>>
    /\ bi = 0 /\ confirm = "none" /\ pcU = "idle"

\* ix.list succeeds: the ids that start with from_pref, in the store's order
UnifyList ==
    /\ pcU = "list"
    /\ \E order \in Orders({i \in DOMAIN ns : StartsWith(i, from_pref)}) :
          /\ found_ids' = order
          /\ pcU' = IF Len(order) = 0 THEN "exit0" ELSE "loop"
    /\ UNCHANGED <<ns, ns0, from_pref, to_id, delete_old, batch_size, all_new_ids,
                   upserted, bi, confirm>>
    /\ UNCHANGED <<varsB, varsV, varsI, varsX>>

\* ix.list raises: "List failed", sys.exit(1)
UnifyListFail ==
    /\ pcU = "list"
    /\ pcU' = "exit1"
    /\ UNCHANGED <<ns, ns0, from_pref, to_id, delete_old, batch_size, found_ids,
                   all_new_ids, upserted, bi, confirm>>
    /\ UNCHANGED <<varsB, varsV, varsI, varsX>>

\* one iteration of the re-upsert loop whose upsert succeeds (or has nothing to send)
UnifyBatch ==
    /\ pcU = "loop"
    /\ bi < NumBatches(found_ids, batch_size)
    /\ LET ups == ToUpsert(ns, BatchOf(found_ids, batch_size, bi), from_pref, to_id)
       IN /\ all_new_ids' = all_new_ids \o [k \in 1..Len(ups) |-> ups[k].id]
          /\ ns' = Upsert(ns, ups)
          /\ upserted' = upserted \o ups
    /\ bi' = bi + 1
    /\ UNCHANGED <<ns0, from_pref, to_id, delete_old, batch_size, found_ids, confirm, pcU>>
    /\ UNCHANGED <<varsB, varsV, varsI, varsX>>

\* one iteration whose ix.upsert raises: "Upsert failed", sys.exit(1)
UnifyBatchFail ==
    /\ pcU = "loop"
    /\ bi < NumBatches(found_ids, batch_size)
    /\ LET ups == ToUpsert(ns, BatchOf(found_ids, batch_size, bi), from_pref, to_id)
       IN /\ Len(ups) > 0
          /\ all_new_ids' = all_new_ids \o [k \in 1..Len(ups) |-> ups[k].id]
    /\ pcU' = "exit1"
    /\ UNCHANGED <<ns, ns0, from_pref, to_id, delete_old, batch_size, found_ids,
                   upserted, bi, confirm>>
    /\ UNCHANGED <<varsB, varsV, varsI, varsX>>

\* the loop is over and --delete-old was not given: the old vectors are retained
UnifyFinishKeep ==
    /\ pcU = "loop"
    /\ bi = NumBatches(found_ids, batch_size)
    /\ ~delete_old
    /\ pcU' = "done"
    /\ UNCHANGED <<ns, ns0, from_pref, to_id, delete_old, batch_size, found_ids,
                   all_new_ids, upserted, bi, confirm>>
    /\ UNCHANGED <<varsB, varsV, varsI, varsX>>

\* the loop is over and --delete-old was given: the prompt is answered
UnifyConfirm ==
    /\ pcU = "loop"
    /\ bi = NumBatches(found_ids, batch_size)
    /\ delete_old
    /\ \E text \in ConfirmInputs :
          /\ confirm' = text
          /\ pcU' = IF Confirmed(text) THEN "delete" ELSE "done"
    /\ bi' = 0
    /\ UNCHANGED <<ns, ns0, from_pref, to_id, delete_old, batch_size, found_ids,
                   all_new_ids, upserted>>
    /\ UNCHANGED <<varsB, varsV, varsI, varsX>>

\* one batch of the delete loop: ix.delete succeeds
UnifyDelete ==
    /\ pcU = "delete"
    /\ bi < NumBatches(found_ids, batch_size)
    /\ ns' = Delete(ns, BatchOf(found_ids, batch_size, bi))
    /\ bi' = bi + 1
    /\ UNCHANGED <<ns0, from_pref, to_id, delete_old, batch_size, found_ids,
                   all_new_ids, upserted, confirm, pcU>>
    /\ UNCHANGED <<varsB, varsV, varsI, varsX>>

\* one batch of the delete loop: ix.delete raises, "Delete failed", the loop goes on
UnifyDeleteFail ==
    /\ pcU = "delete"
    /\ bi < NumBatches(found_ids, batch_size)
    /\ bi' = bi + 1
    /\ UNCHANGED <<ns, ns0, from_pref, to_id, delete_old, batch_size, found_ids,
                   all_new_ids, upserted, confirm, pcU>>
    /\ UNCHANGED <<varsB, varsV, varsI, varsX>>

\* "Deletion done."
UnifyDeleteDone ==
    /\ pcU = "delete"
    /\ bi = NumBatches(found_ids, batch_size)
    /\ pcU' = "done"
    /\ UNCHANGED <<ns, ns0, from_pref, to_id, delete_old, batch_size, found_ids,
                   all_new_ids, upserted, bi, confirm>>
    /\ UNCHANGED <<varsB, varsV, varsI, varsX>>

NextU ==
    \/ UnifyList \/ UnifyListFail \/ UnifyBatch \/ UnifyBatchFail
    \/ UnifyFinishKeep \/ UnifyConfirm
    \/ UnifyDelete \/ UnifyDeleteFail \/ UnifyDeleteDone


(***************************************************************************)
(* upload_to_pinecone.py: the chunk id, rewritten by unify_resumes         *)
(***************************************************************************)
SlugMax == 64

SlugChars == LowerCase \o Digits \o " _-"

\* no character is replaced
KeepEveryChar(s) == s

\* re.sub(r"[^a-z0-9 _-]", " ", s), character by character
RECURSIVE BlankNonSlug(_)
BlankNonSlug(s) ==
    IF s = "" THEN s
    ELSE IF Len(s) = 1 THEN (IF Contains(SlugChars, s) THEN s ELSE " ")
    ELSE BlankNonSlug(SubSeq(s, 1, Len(s) \div 2))
         \o BlankNonSlug(SubSeq(s, Len(s) \div 2 + 1, Len(s)))

\* the slug without the cut at 64 characters
SlugifyUncut(text) ==
    LET joined == JoinWords(BlankNonSlug(Lower(Strip(text))), "_")
    IN IF joined = "" THEN "section" ELSE joined

\* slugify(text)
Slugify(text) ==
    LET joined == JoinWords(BlankNonSlug(Lower(Strip(text))), "_")
        cut == SubSeq(joined, 1, IF Len(joined) < SlugMax THEN Len(joined) ELSE SlugMax)
    IN IF cut = "" THEN "section" ELSE cut

\* the identifier of the name strategy, the hash of the name being given
NameCandidateId(name, hex) == "resumes_" \o Slugify(name) \o "_" \o hex

\* build_vector_id(candidate_id, chunk_index, section)
BuildVectorId(candidate_id, index, sec) ==
    candidate_id \o "_chunk" \o IntToStr(index) \o "_" \o Slugify(sec)

\* candidate names and the six hex digits standing for the hash of each
CandidateNames == {"Sumeet Adhav", "Chunk Norris", "Ana  O'Neil"}
HexOf(name) ==
    CASE name = "Sumeet Adhav" -> "5a07e6"
      [] name = "Chunk Norris" -> "1f3a9c"
      [] OTHER -> "c0ffee"

CandidateIds ==
    {NameCandidateId(n, HexOf(n)) : n \in CandidateNames} \cup {"cand1", "resumes_5a07e6b1c2d3"}

ChunkIndexes == {1, 2, 10}
Sections == {"Skills", "Work Experience", " summary ", "Data Chunks", "C++ / C#", ""}
Targets == {"cand_final", "resumes_sumeet_adhav_5a07e6"}

InitV ==
    /\ cand \in CandidateIds
    /\ chunk_index \in ChunkIndexes
    /\ section \in Sections
    /\ target \in Targets \ {cand}
    /\ vid = ""
    /\ rewritten = ""

\* upload_to_pinecone builds the id of a chunk
BuildId ==
    /\ vid = ""
    /\ vid' = BuildVectorId(cand, chunk_index, section)
    /\ UNCHANGED <<cand, chunk_index, section, target, rewritten>>
    /\ UNCHANGED <<varsB, varsU, varsI, varsX>>

\* unify_resumes, run with --from-prefix cand --to-id target, rewrites it
RewriteId ==
    /\ vid # "" /\ rewritten = ""
    /\ StartsWith(vid, cand)
    /\ rewritten' = NewId(vid, cand, target)
    /\ UNCHANGED <<cand, chunk_index, section, target, vid>>
    /\ UNCHANGED <<varsB, varsU, varsI, varsX>>

NextV == BuildId \/ RewriteId


(***************************************************************************)
(* The ingestion loops: upload_to_pinecone.py (batches of one chunk file), *)
(* jd_to_pinecone.py (one record per JD file), resume_to_pinecone.py (the  *)
(* chunks of each resume file). An item is the sequence of record ids one  *)
(* iteration of the outer loop writes; store holds the ids in the          *)
(* namespace; writeLog records every upsert call and whether it succeeded. *)
(***************************************************************************)
MaxChunks == 3
MaxFiles == 3

\* upload_to_pinecone: the ids of the normalized chunks of the input file
UploadIds(n) ==
    [k \in 1..n |-> BuildVectorId("resumes_5a07e6b1c2d3", k, "section" \o IntToStr(k))]

\* jd_to_pinecone: jd_id is the stem of the file
JdStems == <<"backend_engineer", "data_scientist", "qa_lead", "sre">>

\* resume_to_pinecone: record_id = f"{candidate_id}_chunk{i+1}", i from 0
ResumeRecordId(candidate_id, i) == candidate_id \o "_chunk" \o IntToStr(i + 1)

ResumeFiles ==
    {[candidate_id |-> "cand1", chunks |-> 2], [candidate_id |-> "cand2", chunks |-> 1]}

ResumeItem(f) == [i \in 1..f.chunks |-> ResumeRecordId(f.candidate_id, i - 1)]

InitI ==
    /\ script \in {"upload", "jd", "resume"}
    /\ \/ /\ script = "upload"
          /\ \E n \in 1..MaxChunks, b \in 1..MaxBatch :
                items = [k \in 1..NumBatches(UploadIds(n), b) |->
                            BatchOf(UploadIds(n), b, k - 1)]
          /\ store = {}
       \/ /\ script = "jd"
          /\ \E n \in 1..MaxFiles : items = [k \in 1..n |-> <<JdStems[k]>>]
          /\ store \in {{}, {JdStems[1]}}
       \/ /\ script = "resume"
          /\ \E n \in 1..MaxFiles : \E fs \in [1..n -> ResumeFiles] :
                items = [k \in 1..n |-> ResumeItem(fs[k])]
          /\ store \in {{}, {"cand1_chunk1"}}
    /\ pos = 1
    /\ sub = 1
    /\ writeLog = <<>>
    /\ pcI = "run"

Working == pcI = "run" /\ pos <= Len(items)

ItemIds(item) == {item[k] : k \in 1..Len(item)}

\* upload_to_pinecone: a batch is embedded and index.upsert succeeds
UploadBatch ==
    /\ script = "upload" /\ Working
    /\ store' = store \cup ItemIds(items[pos])
    /\ writeLog' = Append(writeLog, [item |-> pos, ok |-> TRUE])
    /\ pos' = pos + 1
    /\ UNCHANGED <<script, items, sub, pcI>>
    /\ UNCHANGED <<varsB, varsU, varsV, varsX>>

\* upload_to_pinecone: index.upsert raises: "Pinecone upsert failed", sys.exit(1)
UploadBatchFail ==
    /\ script = "upload" /\ Working
    /\ writeLog' = Append(writeLog, [item |-> pos, ok |-> FALSE])
    /\ pcI' = "exit1"
    /\ UNCHANGED <<script, items, pos, sub, store>>
    /\ UNCHANGED <<varsB, varsU, varsV, varsX>>

\* upload_to_pinecone: embed_texts prints "Embedding failed" and re-raises
UploadEmbedFail ==
    /\ script = "upload" /\ Working
    /\ pcI' = "crash"
    /\ UNCHANGED <<script, items, pos, sub, store, writeLog>>
    /\ UNCHANGED <<varsB, varsU, varsV, varsX>>

\* jd_to_pinecone: the file is embedded and ix.upsert succeeds
JdUpsert ==
    /\ script = "jd" /\ Working
    /\ store' = store \cup ItemIds(items[pos])
    /\ writeLog' = Append(writeLog, [item |-> pos, ok |-> TRUE])
    /\ pos' = pos + 1
    /\ UNCHANGED <<script, items, sub, pcI>>
    /\ UNCHANGED <<varsB, varsU, varsV, varsX>>

\* jd_to_pinecone: ix.upsert raises: "Upsert failed" is printed and the for
\* loop goes on with the next file
JdUpsertFail ==
    /\ script = "jd" /\ Working
    /\ writeLog' = Append(writeLog, [item |-> pos, ok |-> FALSE])
    /\ pos' = pos + 1
    /\ UNCHANGED <<script, items, sub, store, pcI>>
    /\ UNCHANGED <<varsB, varsU, varsV, varsX>>

\* jd_to_pinecone: client.embeddings.create raises, uncaught
JdEmbedFail ==
    /\ script = "jd" /\ Working
    /\ pcI' = "crash"
    /\ UNCHANGED <<script, items, pos, sub, store, writeLog>>
    /\ UNCHANGED <<varsB, varsU, varsV, varsX>>

\* the position after chunk sub of file pos has been handled
NextChunk ==
    IF sub < Len(items[pos])
    THEN /\ sub' = sub + 1 /\ pos' = pos
    ELSE /\ sub' = 1 /\ pos' = pos + 1

\* resume_to_pinecone: the fetched record exists, no upsert is issued
ResumeChunkSkip ==
    /\ script = "resume" /\ Working
    /\ items[pos][sub] \in store
    /\ NextChunk
    /\ UNCHANGED <<script, items, store, writeLog, pcI>>
    /\ UNCHANGED <<varsB, varsU, varsV, varsX>>

\* resume_to_pinecone: the record is absent and index.upsert succeeds
ResumeChunkUpsert ==
    /\ script = "resume" /\ Working
    /\ items[pos][sub] \notin store
    /\ store' = store \cup {items[pos][sub]}
    /\ writeLog' = Append(writeLog, [item |-> pos, ok |-> TRUE])
    /\ NextChunk
    /\ UNCHANGED <<script, items, pcI>>
    /\ UNCHANGED <<varsB, varsU, varsV, varsX>>

\* resume_to_pinecone: index.upsert raises out of upsert_resume_file; main
\* catches it, prints "ERROR processing" and goes on with the next file
ResumeChunkFail ==
    /\ script = "resume" /\ Working
    /\ items[pos][sub] \notin store
    /\ writeLog' = Append(writeLog, [item |-> pos, ok |-> FALSE])
    /\ pos' = pos + 1
    /\ sub' = 1
    /\ UNCHANGED <<script, items, store, pcI>>
    /\ UNCHANGED <<varsB, varsU, varsV, varsX>>

\* the loop over the items is over
IngestDone ==
    /\ pcI = "run" /\ pos > Len(items)
    /\ pcI' = "done"
    /\ UNCHANGED <<script, items, pos, sub, store, writeLog>>
    /\ UNCHANGED <<varsB, varsU, varsV, varsX>>

NextI ==
    \/ UploadBatch \/ UploadBatchFail \/ UploadEmbedFail
    \/ JdUpsert \/ JdUpsertFail \/ JdEmbedFail
    \/ ResumeChunkSkip \/ ResumeChunkUpsert \/ ResumeChunkFail
    \/ IngestDone


(***************************************************************************)
(* The start of a script: the check of the configuration and the calls to  *)
(* the vector store, the embedding service and the completion service      *)
(* that follow it                                                          *)
(***************************************************************************)
MaxWork == 2

ConfigScripts == {"upload", "jd", "resume", "unify"}

\* what os.environ / the command line give: TRUE when the value is set
Environments ==
    [pinecone_key : BOOLEAN, index : BOOLEAN, openai_key : BOOLEAN,
     pinecone_env : BOOLEAN]

\* the values a script reads and hands to a client it calls: the vector-store
\* key of Pinecone(api_key=...), the index name of pc.Index(...), and the
\* OpenAI key of the client whose embeddings.create the script calls
Needs(s) ==
    CASE s = "upload" -> {"pinecone_key", "index", "openai_key"}
      [] s = "jd" -> {"pinecone_key", "index", "openai_key"}
      [] s = "resume" -> {"pinecone_key", "openai_key", "pinecone_env"}
      [] s = "unify" -> {"pinecone_key", "index"}

Missing(s, e) == \E k \in Needs(s) : ~e[k]

\* the values the check at the top of the script looks at
Checked(s) ==
    CASE s = "upload" -> {"pinecone_key", "index"}
      [] s = "jd" -> {"pinecone_key", "index"}
      [] s = "resume" -> {"openai_key", "pinecone_key", "pinecone_env"}
      [] s = "unify" -> {"pinecone_key", "index"}

\* the exit status of the check at the top of the script
CheckExit(s) == IF s \in {"upload", "unify"} THEN 2 ELSE 1

InitC ==
    /\ cfgScript \in ConfigScripts
    /\ env \in Environments
    /\ todo \in 1..MaxWork
    /\ calls = <<>>
    /\ status = -1
    /\ reported = FALSE
    /\ pcC = "check"

\* if not KEY or not INDEX_NAME: print(...); sys.exit(n)
ConfigCheck ==
    /\ pcC = "check"
    /\ IF \E k \in Checked(cfgScript) : ~env[k]
         THEN /\ reported' = TRUE
              /\ status' = CheckExit(cfgScript)
              /\ pcC' = "exited"
         ELSE /\ pcC' = "work"
              /\ UNCHANGED <<reported, status>>
    /\ UNCHANGED <<cfgScript, env, todo, calls>>
    /\ UNCHANGED <<varsB, varsU, varsV, varsI, varsR, varsM, varsD, varsK, varsY>>

\* upload_to_pinecone, one batch: gen_notes and embed_texts call OpenAI only
\* when the client exists; without it the notes are snippets and the
\* embeddings are placeholder zero vectors, and index.upsert is called
ConfigUploadBatch ==
    /\ pcC = "work" /\ cfgScript = "upload" /\ todo > 0
    /\ calls' = calls \o (IF env.openai_key THEN <<"complete", "embed">> ELSE <<>>)
                      \o <<"upsert">>
    /\ todo' = todo - 1
    /\ UNCHANGED <<cfgScript, env, status, reported, pcC>>
    /\ UNCHANGED <<varsB, varsU, varsV, varsI, varsR, varsM, varsD, varsK, varsY>>

\* jd_to_pinecone, one file: the OpenAI client is looked at here, after the
\* file was read and before embeddings.create
ConfigJdFile ==
    /\ pcC = "work" /\ cfgScript = "jd" /\ todo > 0
    /\ IF ~env.openai_key
         THEN /\ reported' = TRUE
              /\ status' = 1
              /\ pcC' = "exited"
              /\ UNCHANGED <<calls, todo>>
         ELSE /\ calls' = calls \o <<"embed", "upsert">>
              /\ todo' = todo - 1
              /\ UNCHANGED <<reported, status, pcC>>
    /\ UNCHANGED <<cfgScript, env>>
    /\ UNCHANGED <<varsB, varsU, varsV, varsI, varsR, varsM, varsD, varsK, varsY>>

\* resume_to_pinecone, one file: the sample embedding and ensure_index come
\* before the first file, then each file is embedded, fetched and upserted
ConfigResumeFile ==
    /\ pcC = "work" /\ cfgScript = "resume" /\ todo > 0
    /\ calls' = calls \o (IF calls = <<>> THEN <<"embed", "list_indexes">> ELSE <<>>)
                      \o <<"embed", "fetch", "upsert">>
    /\ todo' = todo - 1
    /\ UNCHANGED <<cfgScript, env, status, reported, pcC>>
    /\ UNCHANGED <<varsB, varsU, varsV, varsI, varsR, varsM, varsD, varsK, varsY>>

\* unify_resumes, one batch: the ids are listed once, each batch is fetched
\* and upserted
ConfigUnifyBatch ==
    /\ pcC = "work" /\ cfgScript = "unify" /\ todo > 0
    /\ calls' = calls \o (IF calls = <<>> THEN <<"list">> ELSE <<>>)
                      \o <<"fetch", "upsert">>
    /\ todo' = todo - 1
    /\ UNCHANGED <<cfgScript, env, status, reported, pcC>>
    /\ UNCHANGED <<varsB, varsU, varsV, varsI, varsR, varsM, varsD, varsK, varsY>>

\* the script runs off its end
ConfigDone ==
    /\ pcC = "work" /\ todo = 0
    /\ status' = 0
    /\ pcC' = "exited"
    /\ UNCHANGED <<cfgScript, env, todo, calls, reported>>
    /\ UNCHANGED <<varsB, varsU, varsV, varsI, varsR, varsM, varsD, varsK, varsY>>

NextC ==
    \/ ConfigCheck \/ ConfigUploadBatch \/ ConfigJdFile \/ ConfigResumeFile
    \/ ConfigUnifyBatch \/ ConfigDone


(***************************************************************************)
(* resume_to_pinecone.py: main, file by file, with the retry loop of       *)
(* get_embeddings_batch                                                    *)
(***************************************************************************)
MaxResumeFiles == 3

\* a file of the data directory: well formed, not parseable as JSON, or
\* parseable with no candidate_id
FileKinds == {"ok", "badjson", "noid"}

Malformed(kind) == kind # "ok"

\* the input directories of 1..MaxResumeFiles files (an empty directory
\* returns before anything is read)
FileLists == UNION {[1..n -> FileKinds] : n \in 1..MaxResumeFiles}

InitR ==
    /\ files \in FileLists
    /\ fpos = 0
    /\ upsertedFiles = {}
    /\ printed = <<>>
    /\ embedDown \in BOOLEAN
    /\ emb = "none"
    /\ pcR = "sample"

\* sample_json = load_json(files[0]); normalize_resume(sample_json, ...):
\* outside any try, so JSONDecodeError / ValueError end the run
ResumeSample ==
    /\ pcR = "sample"
    /\ IF Malformed(files[1])
         THEN /\ pcR' = "crashed"
              /\ emb' = emb
         ELSE /\ pcR' = "sampleEmbed"
              /\ emb' = "call"
    /\ UNCHANGED <<files, fpos, upsertedFiles, printed, embedDown>>
    /\ UNCHANGED <<varsB, varsU, varsV, varsI, varsC, varsM, varsD, varsK, varsY>>

\* get_embeddings_batch: client.embeddings.create raises; the except branch
\* prints the error and sleeps
EmbedFail ==
    /\ emb = "call"
    /\ emb' = "sleep"
    /\ UNCHANGED <<files, fpos, upsertedFiles, printed, embedDown, pcR>>
    /\ UNCHANGED <<varsB, varsU, varsV, varsI, varsC, varsM, varsD, varsK, varsY>>

\* get_embeddings_batch: after time.sleep(sleep_on_error) the while True loop
\* calls the service again
EmbedRetry ==
    /\ emb = "sleep"
    /\ emb' = "call"
    /\ UNCHANGED <<files, fpos, upsertedFiles, printed, embedDown, pcR>>
    /\ UNCHANGED <<varsB, varsU, varsV, varsI, varsC, varsM, varsD, varsK, varsY>>

\* get_embeddings_batch returns the embeddings: after the sample main goes on
\* with ensure_index and the loop; in upsert_resume_file the chunks are
\* fetched / upserted and the file is reported as upserted
EmbedOk ==
    /\ emb = "call" /\ ~embedDown
    /\ emb' = "none"
    /\ IF pcR = "sampleEmbed"
         THEN /\ fpos' = 1
              /\ UNCHANGED <<upsertedFiles, printed>>
         ELSE /\ upsertedFiles' = upsertedFiles \cup {fpos}
              /\ printed' = Append(printed, [kind |-> "upserted", file |-> fpos])
              /\ fpos' = fpos + 1
    /\ pcR' = "loop"
    /\ UNCHANGED <<files, embedDown>>
    /\ UNCHANGED <<varsB, varsU, varsV, varsI, varsC, varsM, varsD, varsK, varsY>>

\* for p in files: try: upsert_resume_file(p, ...) except Exception as e:
\* print("ERROR processing", p, ":", e)
ResumeFile ==
    /\ pcR = "loop" /\ fpos <= Len(files)
    /\ IF Malformed(files[fpos])
         THEN /\ printed' = Append(printed, [kind |-> "error", file |-> fpos])
              /\ fpos' = fpos + 1
              /\ UNCHANGED <<emb, pcR>>
         ELSE /\ emb' = "call"
              /\ pcR' = "embed"
              /\ UNCHANGED <<printed, fpos>>
    /\ UNCHANGED <<files, upsertedFiles, embedDown>>
    /\ UNCHANGED <<varsB, varsU, varsV, varsI, varsC, varsM, varsD, varsK, varsY>>

\* the loop is over and main returns
ResumeDone ==
    /\ pcR = "loop" /\ fpos > Len(files)
    /\ pcR' = "done"
    /\ UNCHANGED <<files, fpos, upsertedFiles, printed, embedDown, emb>>
    /\ UNCHANGED <<varsB, varsU, varsV, varsI, varsC, varsM, varsD, varsK, varsY>>

NextR ==
    \/ ResumeSample \/ EmbedFail \/ EmbedRetry \/ EmbedOk \/ ResumeFile
    \/ ResumeDone


(***************************************************************************)
(* match_candidates.py: the results of one query. Scores are counted in    *)
(* ten-thousandths here (7496 is 0.7496), the reported score of a result   *)
(* is the score rounded to three decimals.                                 *)
(***************************************************************************)
MaxMatches == 2

\* ten-thousandths in a thousandth: round(score, 3)
RoundUnit == 10

\* the configured thresholds in ten-thousandths
MatchThresholds ==
    [hired |-> HIRED_THRESHOLD * 100, shortlist |-> SHORTLIST_THRESHOLD * 100,
     rejected |-> REJECTED_THRESHOLD * 100]

\* similarity scores a query returns, at and around the thresholds
MatchScores == {9000, 7504, 7500, 7496, 5504, 5500, 5495, 4000, 3004, 3000, 2996}

\* round(x, 3): the nearest thousandth; a score written with a final 5 lies,
\* as a binary float, on one side or the other of the middle
Round3(x) ==
    LET r == x % RoundUnit
    IN IF 2 * r < RoundUnit THEN {x - r}
       ELSE IF 2 * r > RoundUnit THEN {x - r + RoundUnit}
       ELSE {x - r, x - r + RoundUnit}

MatchLists == UNION {[1..n -> MatchScores] : n \in 1..MaxMatches}

InitM ==
    /\ matches \in MatchLists
    /\ mpos = 1
    /\ results = <<>>

\* for m in matches: score = m.score; the if / elif chain; results.append(
\* {..., "score": round(score, 3), "bucket": bucket})
MatchResult ==
    /\ mpos >= 1 /\ mpos <= Len(matches)
    /\ \E shown \in Round3(matches[mpos]) :
          results' = Append(results,
                            [score |-> shown,
                             bucket |-> Bucket(matches[mpos], MatchThresholds)])
    /\ mpos' = mpos + 1
    /\ UNCHANGED matches
    /\ UNCHANGED <<varsB, varsU, varsV, varsI, varsC, varsR, varsD, varsK, varsY>>

NextM == MatchResult


(***************************************************************************)
(* upload_to_pinecone.py: deterministic_candidate_id                       *)
(***************************************************************************)
HexLen == 6

HexDigits == "0123456789abcdef"

\* the characters of the inputs; the place of a character is its code, 0 for
\* any other character
Alphabet ==
    " !#$%&'()*+,-./0123456789:;<=>?@ABCDEFGHIJKLMNOPQRSTUVWXYZ[]^_"
    \o "abcdefghijklmnopqrstuvwxyz{|}~"

CharCode(c) ==
    IF \E i \in 1..Len(Alphabet) : SubSeq(Alphabet, i, i) = c
    THEN CHOOSE i \in 1..Len(Alphabet) : SubSeq(Alphabet, i, i) = c
    ELSE 0

\* a number computed from every character of s and its place in s. SHA-1 is
\* not computed: this checksum stands where hashlib.sha1(...) stands, as a
\* fixed function of the bytes of s
RECURSIVE Checksum(_)
Checksum(s) ==
    IF s = "" THEN 40503
    ELSE IF Len(s) = 1 THEN 257 * CharCode(s) + 17
    ELSE (131 * (Checksum(SubSeq(s, 1, Len(s) \div 2)) % 1048576)
          + 7 * Checksum(SubSeq(s, Len(s) \div 2 + 1, Len(s))) + Len(s)) % 16777216

\* the last n hex digits of k, as hexdigest writes them (lowercase)
RECURSIVE ToHex(_, _)
ToHex(k, n) ==
    IF n = 0 THEN ""
    ELSE ToHex(k \div 16, n - 1) \o SubSeq(HexDigits, (k % 16) + 1, (k % 16) + 1)

\* short_hex(s, n=6): the digits given for the candidate names above, the
\* digits of the checksum for every other string
ShortHex(s) == IF s \in CandidateNames THEN HexOf(s) ELSE ToHex(Checksum(s), HexLen)

\* s.split(sep)[0]
BeforeFirst(s, sep) == IF Contains(s, sep) THEN SubSeq(s, 1, Find(s, sep) - 1) ELSE s

\* a JSON string, or null for a value that is absent
JsonValue(v) == IF v = "" THEN "null" ELSE "\"" \o v \o "\""

\* json.dumps(obj, sort_keys=True) of a seed object
JsonDumps(obj) ==
    "{\"full_text\": " \o JsonValue(obj.full_text)
    \o ", \"metadata\": {\"candidate_name\": " \o JsonValue(obj.name)
    \o ", \"email\": " \o JsonValue(obj.email) \o "}}"

\* the outcome of the content_hash branch handed to the random branch
CandidateIdContentAsUuid(obj, m, fresh) ==
    IF m = "email" /\ obj.email # ""
    THEN "resumes_" \o Slugify(IF obj.name # "" THEN obj.name ELSE BeforeFirst(obj.email, "@"))
         \o "_" \o ShortHex(obj.email)
    ELSE IF m = "name" /\ obj.name # "" THEN NameCandidateId(obj.name, ShortHex(obj.name))
    ELSE "resumes_" \o fresh

\* the email branch with the hash taken of the name
CandidateIdEmailHashOfName(obj, m, fresh) ==
    IF m = "uuid" THEN "resumes_" \o fresh
    ELSE IF m = "email" /\ obj.email # ""
    THEN "resumes_" \o Slugify(IF obj.name # "" THEN obj.name ELSE BeforeFirst(obj.email, "@"))
         \o "_" \o ShortHex(obj.name)
    ELSE IF m = "name" /\ obj.name # "" THEN NameCandidateId(obj.name, ShortHex(obj.name))
    ELSE IF m = "content_hash"
    THEN "resumes_" \o ShortHex(IF obj.full_text # "" THEN obj.full_text ELSE JsonDumps(obj))
    ELSE "resumes_" \o fresh

\* deterministic_candidate_id(obj, method); fresh is uuid.uuid4().hex[:12] of
\* this call. An absent name, email or full_text is the empty string.
DeterministicCandidateId(obj, m, fresh) ==
    IF m = "uuid" THEN "resumes_" \o fresh
    ELSE IF m = "email" /\ obj.email # ""
    THEN "resumes_" \o Slugify(IF obj.name # "" THEN obj.name ELSE BeforeFirst(obj.email, "@"))
         \o "_" \o ShortHex(obj.email)
    ELSE IF m = "name" /\ obj.name # "" THEN NameCandidateId(obj.name, ShortHex(obj.name))
    ELSE IF m = "content_hash"
    THEN "resumes_" \o ShortHex(IF obj.full_text # "" THEN obj.full_text ELSE JsonDumps(obj))
    ELSE "resumes_" \o fresh

IdMethods == {"uuid", "email", "name", "content_hash"}

\* what uuid4 gives to one call and to another
UuidDraws == {"3f2a9c0d1e4b", "a7c1e9b3d502"}

SeedNames ==
    {"", "Ana Lima", "ana  LIMA", "Jean-Luc Picard", "Ana  O'Neil",
     "Maria Teresa de la Santisima Trinidad Fernandez de Cordoba y Alvarez de Toledo"}
SeedEmails == {"", "ana.lima@example.com", "Jean-Luc@Example.org"}
SeedTexts == {"", "Skills: Python, SQL"}

SeedObjects == [name : SeedNames, email : SeedEmails, full_text : SeedTexts]

\* two seed objects with one email and one text, whose names may differ
InitD ==
    /\ objA \in SeedObjects
    /\ objB \in {o \in SeedObjects : o.email = objA.email /\ o.full_text = objA.full_text}
    /\ method \in IdMethods
    /\ idA = ""
    /\ idB = ""

\* candidate_id = deterministic_candidate_id(seed_obj, ID_METHOD), one run
CandidateIdA ==
    /\ idA = ""
    /\ \E fresh \in UuidDraws : idA' = DeterministicCandidateId(objA, method, fresh)
    /\ UNCHANGED <<objA, objB, method, idB>>
    /\ UNCHANGED <<varsB, varsU, varsV, varsI, varsC, varsR, varsM, varsK, varsY>>

\* the same call of another run
CandidateIdB ==
    /\ idB = ""
    /\ \E fresh \in UuidDraws : idB' = DeterministicCandidateId(objB, method, fresh)
    /\ UNCHANGED <<objA, objB, method, idA>>
    /\ UNCHANGED <<varsB, varsU, varsV, varsI, varsC, varsR, varsM, varsK, varsY>>

NextD == CandidateIdA \/ CandidateIdB


(***************************************************************************)
(* match_candidates_llm_v2.py: cosine_sim. Vectors have integer            *)
(* coordinates; a similarity is kept exactly, as the pair num, den2 that   *)
(* stands for num / sqrt(den2).                                            *)
(***************************************************************************)
MaxDim == 2

Coordinates == {-1, 0, 1, 2}

\* None, or a list of numbers
NoneVector == [none |-> TRUE, v |-> <<>>]
Vectors ==
    {NoneVector}
    \cup {[none |-> FALSE, v |-> w] : w \in UNION {[1..n -> Coordinates] : n \in 0..MaxDim}}

\* sum(x * y for x, y in zip(a, b)): the longer list is cut
RECURSIVE DotZip(_, _)
DotZip(a, b) ==
    IF a = <<>> \/ b = <<>> THEN 0
    ELSE Head(a) * Head(b) + DotZip(Tail(a), Tail(b))

\* the square of the norm of a
NormSq(a) == DotZip(a, a)

\* a returned number num / sqrt(den2), or an exception raised
Value(n, d2) == [raised |-> FALSE, num |-> n, den2 |-> d2]
Raised == [raised |-> TRUE, num |-> 0, den2 |-> 1]

\* -1.0
Sentinel == Value(-1, 1)

\* cosine_sim with no test of the denominator: the division by zero
CosineSimNoZeroTest(a, b, with_np) ==
    IF a.none \/ b.none THEN Sentinel
    ELSE IF NormSq(a.v) * NormSq(b.v) = 0 THEN Raised
    ELSE IF with_np /\ Len(a.v) # Len(b.v) THEN Raised
    ELSE Value(DotZip(a.v, b.v), NormSq(a.v) * NormSq(b.v))

\* cosine_sim dividing by the norm of the first vector twice
CosineSimNormOfFirst(a, b, with_np) ==
    IF a.none \/ b.none THEN Sentinel
    ELSE IF NormSq(a.v) * NormSq(b.v) = 0 THEN Sentinel
    ELSE IF with_np /\ Len(a.v) # Len(b.v) THEN Raised
    ELSE Value(DotZip(a.v, b.v), NormSq(a.v) * NormSq(a.v))

\* cosine_sim(a, b); with_np says whether numpy was imported. With numpy the
\* product of the norms is tested before np.dot, which raises ValueError on
\* arrays of different lengths; the pure-python branch zips the lists.
CosineSim(a, b, with_np) ==
    IF a.none \/ b.none THEN Sentinel
    ELSE IF with_np
    THEN IF NormSq(a.v) * NormSq(b.v) = 0 THEN Sentinel
         ELSE IF Len(a.v) # Len(b.v) THEN Raised
         ELSE Value(DotZip(a.v, b.v), NormSq(a.v) * NormSq(b.v))
    ELSE IF NormSq(a.v) = 0 \/ NormSq(b.v) = 0 THEN Sentinel
         ELSE Value(DotZip(a.v, b.v), NormSq(a.v) * NormSq(b.v))

\* no call has been made: the three results are still to be written
InitK ==
    /\ va \in Vectors
    /\ vb \in Vectors
    /\ has_np \in BOOLEAN
    /\ computed = {}
    /\ sim = Raised
    /\ simRev = Raised
    /\ simSelf = Raised

\* score = cosine_sim(rvec, jvec)
CosineAB ==
    /\ "ab" \notin computed
    /\ sim' = CosineSim(va, vb, has_np)
    /\ computed' = computed \cup {"ab"}
    /\ UNCHANGED <<va, vb, has_np, simRev, simSelf>>
    /\ UNCHANGED <<varsB, varsU, varsV, varsI, varsC, varsR, varsM, varsD, varsY>>

\* the same call with the arguments exchanged
CosineBA ==
    /\ "ba" \notin computed
    /\ simRev' = CosineSim(vb, va, has_np)
    /\ computed' = computed \cup {"ba"}
    /\ UNCHANGED <<va, vb, has_np, sim, simSelf>>
    /\ UNCHANGED <<varsB, varsU, varsV, varsI, varsC, varsR, varsM, varsD, varsY>>

\* the call on a vector and itself
CosineAA ==
    /\ "aa" \notin computed
    /\ simSelf' = CosineSim(va, va, has_np)
    /\ computed' = computed \cup {"aa"}
    /\ UNCHANGED <<va, vb, has_np, sim, simRev>>
    /\ UNCHANGED <<varsB, varsU, varsV, varsI, varsC, varsR, varsM, varsD, varsY>>

NextK == CosineAB \/ CosineBA \/ CosineAA


(***************************************************************************)
(* list_candidate_vectors.py: the fetched vectors grouped by candidate     *)
(***************************************************************************)
MaxFetched == 3

\* ids of the namespace, and what the candidate_id of the metadata may be
\* ("" when the metadata has none)
ListedIds == {"x_chunk1_summary", "x_chunk2_skills", "y_chunk1_summary", "z9"}
MetaCandidateIds == {"", "x", "w"}

\* fetched.vectors: distinct ids in the order the store returns them
FetchedLists ==
    UNION {{f \in [1..n -> [id : ListedIds, candidate_id : MetaCandidateIds]] :
               \A i, j \in 1..n : f[i].id = f[j].id => i = j} : n \in 0..MaxFetched}

\* cid = (meta or {}).get("candidate_id") or vid.split("_chunk")[0]
GroupKey(v) == IF v.candidate_id # "" THEN v.candidate_id ELSE BeforeFirst(v.id, "_chunk")

\* mapping.setdefault(cid, []).append(vid): a dict keeps its keys in the
\* order of their first insertion
AddToGroup(m, cid, id) ==
    IF \E g \in 1..Len(m) : m[g].cid = cid
    THEN [g \in 1..Len(m) |->
             IF m[g].cid = cid THEN [m[g] EXCEPT !.vids = Append(@, id)] ELSE m[g]]
    ELSE Append(m, [cid |-> cid, vids |-> <<id>>])

\* the groups left in the order of their insertion
InsertionOrder(m) == m

\* one group put into a list sorted by descending count, behind the groups
\* of the same count
RECURSIVE InsertByCount(_, _)
InsertByCount(sorted, g) ==
    IF sorted = <<>> THEN <<g>>
    ELSE IF Len(Head(sorted).vids) >= Len(g.vids)
    THEN <<Head(sorted)>> \o InsertByCount(Tail(sorted), g)
    ELSE <<g>> \o sorted

\* sorted(mapping.items(), key=lambda x: len(x[1]), reverse=True): stable
RECURSIVE SortedByCount(_)
SortedByCount(m) ==
    IF m = <<>> THEN <<>>
    ELSE InsertByCount(SortedByCount(SubSeq(m, 1, Len(m) - 1)), m[Len(m)])

InitA ==
    /\ fetched \in FetchedLists
    /\ gpos = 1
    /\ mapping = <<>>
    /\ report = <<>>
    /\ pcA = "group"

\* for vid, v in vecs.items(): one vector is put into its group
AggregateOne ==
    /\ pcA = "group" /\ gpos <= Len(fetched)
    /\ mapping' = AddToGroup(mapping, GroupKey(fetched[gpos]), fetched[gpos].id)
    /\ gpos' = gpos + 1
    /\ UNCHANGED <<fetched, report, pcA>>
    /\ UNCHANGED exceptA

\* items = sorted(...); the groups are printed
AggregateReport ==
    /\ pcA = "group" /\ gpos > Len(fetched)
    /\ report' = SortedByCount(mapping)
    /\ pcA' = "done"
    /\ UNCHANGED <<fetched, gpos, mapping>>
    /\ UNCHANGED exceptA

NextA == AggregateOne \/ AggregateReport


(***************************************************************************)
(* inspect_jd.py: clean_gpt_response and safe_json_load. The backquote     *)
(* cannot be written in a string of this language: the character ~ stands  *)
(* for it in every reply, so that a fence is ~~~.                          *)
(***************************************************************************)
Fence == "~~~"

\* s[i] (1-based), "" outside s
CharAt(s, i) == IF i >= 1 /\ i <= Len(s) THEN SubSeq(s, i, i) ELSE ""

\* s[m-1:n], the slice that stops where s stops
Slice(s, m, n) == SubSeq(s, m, IF n > Len(s) THEN Len(s) ELSE n)

\* s.endswith(p)
EndsWith(s, p) == Len(p) <= Len(s) /\ SubSeq(s, Len(s) - Len(p) + 1, Len(s)) = p

\* s.rfind(part), 1-based; 0 when absent
RFind(s, part) ==
    IF Occurrences(s, part) = {} THEN 0
    ELSE CHOOSE i \in Occurrences(s, part) : \A j \in Occurrences(s, part) : i >= j

IsLetter(c) == c # "" /\ (Contains(LowerCase, c) \/ Contains(UpperCase, c))

\* what is left of s after its leading letters: [a-zA-Z]*
RECURSIVE AfterLetters(_)
AfterLetters(s) ==
    IF IsLetter(CharAt(s, 1)) THEN AfterLetters(SubSeq(s, 2, Len(s))) ELSE s

\* re.sub(r"^```[a-zA-Z]*\n?", "", txt) on a text that starts with a fence
DropLeadingFence(txt) ==
    LET rest == AfterLetters(SubSeq(txt, Len(Fence) + 1, Len(txt)))
    IN IF CharAt(rest, 1) = "\n" THEN SubSeq(rest, 2, Len(rest)) ELSE rest

\* re.sub(r"\n?```$", "", txt): a fence at the very end, with the newline
\* in front of it
DropTrailingFence(txt) ==
    IF ~EndsWith(txt, Fence) THEN txt
    ELSE LET cut == SubSeq(txt, 1, Len(txt) - Len(Fence))
         IN IF EndsWith(cut, "\n") THEN SubSeq(cut, 1, Len(cut) - 1) ELSE cut

\* min of txt.find('[') and txt.find('{'), 0 when there is neither
FirstOpener(txt) ==
    IF Find(txt, "[") = 0 THEN Find(txt, "{")
    ELSE IF Find(txt, "{") = 0 THEN Find(txt, "[")
    ELSE IF Find(txt, "[") < Find(txt, "{") THEN Find(txt, "[") ELSE Find(txt, "{")

\* the first closing bracket instead of the last
FirstCloser(txt) ==
    IF Find(txt, "}") = 0 THEN Find(txt, "]")
    ELSE IF Find(txt, "]") = 0 THEN Find(txt, "}")
    ELSE IF Find(txt, "}") < Find(txt, "]") THEN Find(txt, "}") ELSE Find(txt, "]")

\* max(txt.rfind('}'), txt.rfind(']')), 0 when there is neither
LastCloser(txt) ==
    IF RFind(txt, "}") > RFind(txt, "]") THEN RFind(txt, "}") ELSE RFind(txt, "]")

\* clean_gpt_response(raw_output)
CleanGptResponse(raw_output) ==
    LET txt == Strip(raw_output)
    IN IF StartsWith(txt, Fence)
       THEN Strip(DropTrailingFence(DropLeadingFence(txt)))
       ELSE IF FirstOpener(txt) = 0 THEN txt
       ELSE IF LastCloser(txt) = 0 THEN txt
       ELSE SubSeq(txt, FirstOpener(txt), LastCloser(txt))

\* json.loads: the place after the white space that starts at i
RECURSIVE SkipSpace(_, _)
SkipSpace(s, i) == IF IsSpace(CharAt(s, i)) THEN SkipSpace(s, i + 1) ELSE i

\* json.loads: the place after the digits that start at i
RECURSIVE DigitsEnd(_, _)
DigitsEnd(s, i) ==
    IF CharAt(s, i) # "" /\ Contains(Digits, CharAt(s, i)) THEN DigitsEnd(s, i + 1) ELSE i

\* json.loads: the place after the string whose text starts at i, 0 when
\* the line or the text ends before the closing quote
RECURSIVE StringEnd(_, _)
StringEnd(s, i) ==
    IF CharAt(s, i) = "" \/ CharAt(s, i) = "\n" THEN 0
    ELSE IF CharAt(s, i) = "\"" THEN i + 1
    ELSE StringEnd(s, i + 1)

\* json.loads: the place after the JSON value that starts at i, 0 when there
\* is none (arrays, objects, strings without escapes, unsigned integers,
\* true, false, null)
RECURSIVE JsonValueEnd(_, _)
RECURSIVE JsonItemsEnd(_, _)
RECURSIVE JsonMembersEnd(_, _)
JsonValueEnd(s, i) ==
    LET j == SkipSpace(s, i)
        c == CharAt(s, j)
    IN IF c = "[" THEN (IF CharAt(s, SkipSpace(s, j + 1)) = "]"
                        THEN SkipSpace(s, j + 1) + 1
                        ELSE JsonItemsEnd(s, j + 1))
       ELSE IF c = "{" THEN (IF CharAt(s, SkipSpace(s, j + 1)) = "}"
                             THEN SkipSpace(s, j + 1) + 1
                             ELSE JsonMembersEnd(s, j + 1))
       ELSE IF c = "\"" THEN StringEnd(s, j + 1)
       ELSE IF c # "" /\ Contains(Digits, c) THEN DigitsEnd(s, j)
       ELSE IF Slice(s, j, j + 3) = "true" THEN j + 4
       ELSE IF Slice(s, j, j + 3) = "null" THEN j + 4
       ELSE IF Slice(s, j, j + 4) = "false" THEN j + 5
       ELSE 0

JsonItemsEnd(s, i) ==
    LET v == JsonValueEnd(s, i)
        k == SkipSpace(s, v)
    IN IF v = 0 THEN 0
       ELSE IF CharAt(s, k) = "," THEN JsonItemsEnd(s, k + 1)
       ELSE IF CharAt(s, k) = "]" THEN k + 1
       ELSE 0

JsonMembersEnd(s, i) ==
    LET j == SkipSpace(s, i)
        e == IF CharAt(s, j) = "\"" THEN StringEnd(s, j + 1) ELSE 0
        k == SkipSpace(s, e)
        v == IF e # 0 /\ CharAt(s, k) = ":" THEN JsonValueEnd(s, k + 1) ELSE 0
        n == SkipSpace(s, v)
    IN IF v = 0 THEN 0
       ELSE IF CharAt(s, n) = "," THEN JsonMembersEnd(s, n + 1)
       ELSE IF CharAt(s, n) = "}" THEN n + 1
       ELSE 0

\* json.loads(s) returns a value (it raises JSONDecodeError otherwise)
JsonOk(s) == JsonValueEnd(s, 1) # 0 /\ SkipSpace(s, JsonValueEnd(s, 1)) = Len(s) + 1

\* re.search(r'(\{.*\}|\[.*\])', s, re.DOTALL): the leftmost { with a } behind
\* it, or [ with a ] behind it, up to the last such closing bracket; "" when
\* there is no match
RegexBlock(s) ==
    LET starts == {q \in 1..Len(s) :
                      \/ CharAt(s, q) = "{" /\ RFind(s, "}") > q
                      \/ CharAt(s, q) = "[" /\ RFind(s, "]") > q}
        q0 == CHOOSE q \in starts : \A r \in starts : q <= r
    IN IF starts = {} THEN ""
       ELSE SubSeq(s, q0, IF CharAt(s, q0) = "{" THEN RFind(s, "}") ELSE RFind(s, "]"))

\* safe_json_load that gives up after the first failure
SafeJsonLoadNoSalvage(s) ==
    [attempts |-> <<CleanGptResponse(s)>>, ok |-> JsonOk(CleanGptResponse(s))]

\* safe_json_load(s): the texts handed to json.loads, in order, and whether
\* a value is returned
SafeJsonLoad(s) ==
    IF JsonOk(CleanGptResponse(s))
    THEN [attempts |-> <<CleanGptResponse(s)>>, ok |-> TRUE]
    ELSE IF RegexBlock(s) # ""
    THEN [attempts |-> <<CleanGptResponse(s), RegexBlock(s)>>, ok |-> JsonOk(RegexBlock(s))]
    ELSE [attempts |-> <<CleanGptResponse(s)>>, ok |-> FALSE]

\* the replies: something in front, a body, something behind
ReplyPrefixes == {"", " ", "Here is the result: ", "~~~json\n", "~~~\n", "~~~"}
ReplyBodies ==
    {"[{\"a\":1}]", "{\"evaluations\": [1]}", "[1, 2", "No candidates found.", "42",
     "} oops {", "[1] and {\"a\":1}", "see {a} here"}
ReplySuffixes == {"", " Thanks!", "\n", "\n~~~", "\n~~~\nDone", "~~~"}
Replies == {a \o b \o c : a \in ReplyPrefixes, b \in ReplyBodies, c \in ReplySuffixes}

InitJ ==
    /\ raw = ""
    /\ cleaned = ""
    /\ attempts = <<>>
    /\ printedRaw = <<>>
    /\ llmCalls = 0
    /\ pcJ = "call"

\* response = llm.chat.completions.create(...); raw = ...message.content
LlmReply ==
    /\ pcJ = "call"
    /\ raw' \in Replies
    /\ llmCalls' = llmCalls + 1
    /\ pcJ' = "load"
    /\ UNCHANGED <<cleaned, attempts, printedRaw>>
    /\ UNCHANGED exceptJ

\* parsed = safe_json_load(raw)
SafeLoad ==
    /\ pcJ = "load"
    /\ cleaned' = CleanGptResponse(raw)
    /\ attempts' = SafeJsonLoad(raw).attempts
    /\ pcJ' = IF SafeJsonLoad(raw).ok THEN "parsed" ELSE "except"
    /\ UNCHANGED <<raw, printedRaw, llmCalls>>
    /\ UNCHANGED exceptJ

\* except Exception: print("[ERROR] ..."); print(raw); raise
ReportParseError ==
    /\ pcJ = "except"
    /\ printedRaw' = Append(printedRaw, raw)
    /\ pcJ' = "raised"
    /\ UNCHANGED <<raw, cleaned, attempts, llmCalls>>
    /\ UNCHANGED exceptJ

NextJ == LlmReply \/ SafeLoad \/ ReportParseError


(***************************************************************************)
(* inspect_jd.py: the results list of a parsed reply. A JSON value is kept *)
(* by its kind, its truth value and the kinds of what iterating over it    *)
(* yields (the items of a list, the characters of a string, the keys of an *)
(* object).                                                                *)
(***************************************************************************)
MaxItems == 2

ItemKinds == {"dict", "number", "string"}

\* dict.get(key) of a key that is not there: None
Absent == [kind |-> "absent", truthy |-> FALSE, items |-> <<>>]
Null == [kind |-> "null", truthy |-> FALSE, items |-> <<>>]
Zero == [kind |-> "number", truthy |-> FALSE, items |-> <<>>]
Five == [kind |-> "number", truthy |-> TRUE, items |-> <<>>]
Str == [kind |-> "string", truthy |-> TRUE, items |-> <<"string">>]
EmptyDict == [kind |-> "dict", truthy |-> FALSE, items |-> <<>>]
Dict == [kind |-> "dict", truthy |-> TRUE, items |-> <<"string">>]
EmptyList == [kind |-> "list", truthy |-> FALSE, items |-> <<>>]

Lists ==
    {[kind |-> "list", truthy |-> Len(l) > 0, items |-> l] :
        l \in UNION {[1..n -> ItemKinds] : n \in 0..MaxItems}}

FieldValues == Lists \cup {Absent, Null, Zero, Five, Str, EmptyDict, Dict}

\* what json.loads can return: a list, an object with its values under the
\* keys evaluations and results, or a scalar
ParsedShapes ==
    {[value |-> l, evaluations |-> Absent, results |-> Absent] : l \in Lists}
    \cup {[value |-> Dict, evaluations |-> e, results |-> r] : e, r \in FieldValues}
    \cup {[value |-> v, evaluations |-> Absent, results |-> Absent] : v \in {Null, Five, Str}}

\* a or b
Or(a, b) == IF a.truthy THEN a ELSE b

\* the if / elif chain that sets parsed_list
ResultsList(p) ==
    IF p.value.kind = "dict" /\ p.evaluations.truthy THEN p.evaluations
    ELSE IF p.value.kind = "list" THEN p.value
    ELSE IF p.value.kind = "dict" THEN Or(Or(p.results, p.evaluations), EmptyList)
    ELSE EmptyList

\* for item in v: a number, a boolean or None is not iterable
Iterable(v) == v.kind \in {"list", "string", "dict"}

InitN ==
    /\ parsed \in ParsedShapes
    /\ parsed_list = Absent
    /\ ipos = 1
    /\ rows = 0
    /\ pcN = "normalize"

NormalizeParsed ==
    /\ pcN = "normalize"
    /\ parsed_list' = ResultsList(parsed)
    /\ pcN' = "print"
    /\ UNCHANGED <<parsed, ipos, rows>>
    /\ UNCHANGED exceptN

\* rid = item.get("resume_id", "unknown") ...; print(...)
PrintItem ==
    /\ pcN = "print"
    /\ Iterable(parsed_list)
    /\ ipos <= Len(parsed_list.items)
    /\ parsed_list.items[ipos] = "dict"
    /\ rows' = rows + 1
    /\ ipos' = ipos + 1
    /\ UNCHANGED <<parsed, parsed_list, pcN>>
    /\ UNCHANGED exceptN

\* TypeError of the for statement, AttributeError of item.get
PrintRaises ==
    /\ pcN = "print"
    /\ \/ ~Iterable(parsed_list)
       \/ /\ ipos <= Len(parsed_list.items)
          /\ parsed_list.items[ipos] # "dict"
    /\ pcN' = "error"
    /\ UNCHANGED <<parsed, parsed_list, ipos, rows>>
    /\ UNCHANGED exceptN

\* json.dump(parsed_list, f, ...)
SaveOutput ==
    /\ pcN = "print"
    /\ Iterable(parsed_list)
    /\ ipos > Len(parsed_list.items)
    /\ pcN' = "saved"
    /\ UNCHANGED <<parsed, parsed_list, ipos, rows>>
    /\ UNCHANGED exceptN

NextN == NormalizeParsed \/ PrintItem \/ PrintRaises \/ SaveOutput


(***************************************************************************)
(* resume_to_pinecone.py: chunk_text                                       *)
(***************************************************************************)
MaxWords == 3
MaxSize == 3
MaxOverlap == 3
\* the iterations of the while loop that are followed. A call that returns
\* makes at most one iteration per word (i grows by at least 1), so only a
\* loop in which i does not grow gets this far; the code goes on from there.
MaxLoops == 5

\* text.split()
RECURSIVE SplitWords(_)
SplitWords(s) ==
    LET t == LStrip(s)
    IN IF t = "" THEN <<>>
       ELSE <<SubSeq(t, 1, WordLen(t))>> \o SplitWords(SubSeq(t, WordLen(t) + 1, Len(t)))

\* sep.join(l)
RECURSIVE JoinSeq(_, _)
JoinSeq(l, sep) ==
    IF l = <<>> THEN ""
    ELSE IF Len(l) = 1 THEN l[1]
    ELSE l[1] \o sep \o JoinSeq(Tail(l), sep)

\* a slice bound of a list of n items: negative bounds count from the end
PyIndex(x, n) ==
    IF x < 0 THEN (IF x + n < 0 THEN 0 ELSE x + n)
    ELSE IF x > n THEN n ELSE x

\* l[a:b]
PySlice(l, a, b) == SubSeq(l, PyIndex(a, Len(l)) + 1, PyIndex(b, Len(l)))

\* the texts: the first n words of a resume, with the white space of a file
TextWords == <<"python ", "sql\n", "  aws", "\tdocker ", "git", " go">>
TextOf(n) == JoinSeq(SubSeq(TextWords, 1, n), " ")
Texts == {TextOf(n) : n \in 0..MaxWords}

\* the call, after words = text.split(); chunks, i = [], 0
InitT ==
    /\ document_text \in Texts
    /\ chunk_size_words \in 1..MaxSize
    /\ overlap \in 0..MaxOverlap
    /\ words = SplitWords(document_text)
    /\ chunks = <<>>
    /\ ci = 0
    /\ pcT = "loop"

\* one iteration of while i < len(words)
ChunkStep ==
    /\ pcT = "loop"
    /\ ci < Len(words)
    /\ Len(chunks) < MaxLoops
    /\ chunks' = Append(chunks, JoinSeq(PySlice(words, ci, ci + chunk_size_words), " "))
    /\ ci' = ci + chunk_size_words - overlap
    /\ UNCHANGED <<document_text, words, chunk_size_words, overlap, pcT>>
    /\ UNCHANGED exceptT

\* return chunks or [""]
ChunkReturn ==
    /\ pcT = "loop"
    /\ ci >= Len(words)
    /\ chunks' = IF chunks = <<>> THEN <<"">> ELSE chunks
    /\ pcT' = "returned"
    /\ UNCHANGED <<document_text, words, chunk_size_words, overlap, ci>>
    /\ UNCHANGED exceptT

NextT == ChunkStep \/ ChunkReturn


(***************************************************************************)
(* resume_to_pinecone.py: upsert_resume_file on a file that is ingested a  *)
(* second time. A record of the namespace is kept by the run that wrote it *)
(* (0: it was there before) and by the chunk it holds.                     *)
(***************************************************************************)
MaxFileChunks == 3

\* the chunk records the Resumes namespace may hold before the first run
PreIds == {"c1_chunk1", "c1_chunk2", "c1_chunk10", "c2_chunk1"}

\* record_id = f"{candidate_id}_chunk{i+1}"
RecordId(cid, n) == cid \o "_chunk" \o IntToStr(n)

\* the test left out: every tuple is upserted
AlwaysAbsent(st, record_id) == TRUE

\* record_id not in existing.vectors
NotStored(st, record_id) == record_id \notin DOMAIN st

\* index.upsert(vectors=[(record_id, emb, md)], namespace="Resumes")
UpsertOne(st, record_id, rec) ==
    [i \in DOMAIN st \cup {record_id} |-> IF i = record_id THEN rec ELSE st[i]]

InitP ==
    /\ \E S \in SUBSET PreIds : pstore = [i \in S |-> [by |-> 0, chunk |-> 0]]
    /\ pstore0 = pstore
    /\ afterFirst = <<>>
    /\ file_cid \in {"c1", "c2"}
    /\ nchunks \in 1..MaxFileChunks
    /\ prun = 1
    /\ tpos = 1
    /\ upsertLog = <<>>
    /\ firstReturned = FALSE
    /\ pcP = "run"

\* the record is in the namespace: no upsert
TwiceSkip ==
    /\ pcP = "run" /\ tpos <= nchunks
    /\ ~NotStored(pstore, RecordId(file_cid, tpos))
    /\ tpos' = tpos + 1
    /\ UNCHANGED <<pstore, pstore0, afterFirst, file_cid, nchunks, prun, upsertLog,
                   firstReturned, pcP>>
    /\ UNCHANGED exceptP

\* the record is not in the namespace: index.upsert succeeds
TwiceUpsert ==
    /\ pcP = "run" /\ tpos <= nchunks
    /\ NotStored(pstore, RecordId(file_cid, tpos))
    /\ pstore' = UpsertOne(pstore, RecordId(file_cid, tpos), [by |-> prun, chunk |-> tpos])
    /\ upsertLog' = Append(upsertLog, [run |-> prun, id |-> RecordId(file_cid, tpos)])
    /\ tpos' = tpos + 1
    /\ UNCHANGED <<pstore0, afterFirst, file_cid, nchunks, prun, firstReturned, pcP>>
    /\ UNCHANGED exceptP

\* index.upsert raises: the exception leaves upsert_resume_file; the file is
\* ingested again by the next run
TwiceUpsertRaises ==
    /\ pcP = "run" /\ tpos <= nchunks
    /\ NotStored(pstore, RecordId(file_cid, tpos))
    /\ IF prun = 1
       THEN /\ afterFirst' = pstore /\ prun' = 2 /\ tpos' = 1
            /\ UNCHANGED pcP
       ELSE /\ pcP' = "done"
            /\ UNCHANGED <<afterFirst, prun, tpos>>
    /\ UNCHANGED <<pstore, pstore0, file_cid, nchunks, upsertLog, firstReturned>>
    /\ UNCHANGED exceptP

\* return candidate_id, len(tuples); the file is ingested again
TwiceReturn ==
    /\ pcP = "run" /\ tpos > nchunks
    /\ IF prun = 1
       THEN /\ afterFirst' = pstore /\ prun' = 2 /\ tpos' = 1
            /\ firstReturned' = TRUE
            /\ UNCHANGED pcP
       ELSE /\ pcP' = "done"
            /\ UNCHANGED <<afterFirst, prun, tpos, firstReturned>>
    /\ UNCHANGED <<pstore, pstore0, file_cid, nchunks, upsertLog>>
    /\ UNCHANGED exceptP

NextP == TwiceSkip \/ TwiceUpsert \/ TwiceUpsertRaises \/ TwiceReturn


(***************************************************************************)
(* Specifications                                                          *)
(***************************************************************************)
IdleV ==
    /\ cand = "" /\ chunk_index = 0 /\ section = "" /\ target = ""
    /\ vid = "" /\ rewritten = ""

IdleI ==
    /\ script = "idle" /\ items = <<>> /\ pos = 0 /\ sub = 0 /\ store = {}
    /\ writeLog = <<>> /\ pcI = "idle"

IdleC ==
    /\ cfgScript = "idle" /\ env = <<>> /\ todo = 0 /\ calls = <<>>
    /\ status = -1 /\ reported = FALSE /\ pcC = "idle"

IdleR ==
    /\ files = <<>> /\ fpos = 0 /\ upsertedFiles = {} /\ printed = <<>>
    /\ embedDown = FALSE /\ emb = "none" /\ pcR = "idle"

IdleM == matches = <<>> /\ mpos = 0 /\ results = <<>>

IdleD == objA = <<>> /\ objB = <<>> /\ method = "idle" /\ idA = "" /\ idB = ""

IdleK ==
    /\ va = <<>> /\ vb = <<>> /\ has_np = FALSE /\ computed = {}
    /\ sim = <<>> /\ simRev = <<>> /\ simSelf = <<>>

IdleA ==
    /\ fetched = <<>> /\ gpos = 0 /\ mapping = <<>> /\ report = <<>> /\ pcA = "idle"

IdleJ ==
    /\ raw = "" /\ cleaned = "" /\ attempts = <<>> /\ printedRaw = <<>>
    /\ llmCalls = 0 /\ pcJ = "idle"

IdleN ==
    /\ parsed = [value |-> Absent, evaluations |-> Absent, results |-> Absent]
    /\ parsed_list = Absent /\ ipos = 0 /\ rows = 0 /\ pcN = "idle"

IdleT ==
    /\ document_text = "" /\ words = <<>> /\ chunk_size_words = 1 /\ overlap = 0
    /\ chunks = <<>> /\ ci = 0 /\ pcT = "idle"

IdleP ==
    /\ pstore = <<>> /\ pstore0 = <<>> /\ afterFirst = <<>> /\ file_cid = ""
    /\ nchunks = 0 /\ prun = 0 /\ tpos = 0 /\ upsertLog = <<>>
    /\ firstReturned = FALSE /\ pcP = "idle"

IdleY == IdleA /\ IdleJ /\ IdleN /\ IdleT /\ IdleP

\* every part of the model before the last ones at rest
IdleW ==
    IdleB /\ IdleU /\ IdleV /\ IdleI /\ IdleC /\ IdleR /\ IdleM /\ IdleD /\ IdleK

IdleX == IdleC /\ IdleR /\ IdleM /\ IdleD /\ IdleK /\ IdleY

NextB == Classify

\* the bucket classifier on every score and threshold triple of the bounds
InitBucket == InitB /\ IdleU /\ IdleV /\ IdleI /\ IdleX

SpecBucket == InitBucket /\ [][NextB]_vars

\* a chunk id built by upload_to_pinecone and rewritten by unify_resumes
InitIds == IdleB /\ IdleU /\ InitV /\ IdleI /\ IdleX

SpecIds == InitIds /\ [][NextV]_vars

\* one run of an ingestion script
InitIngest == IdleB /\ IdleU /\ IdleV /\ InitI /\ IdleX

SpecIngest == InitIngest /\ [][NextI]_vars

\* one run of unify_resumes.py
InitUnify == IdleB /\ InitU /\ IdleV /\ IdleI /\ IdleX

SpecUnify == InitUnify /\ [][NextU]_vars

\* the start of one script under one environment
InitConfig == IdleB /\ IdleU /\ IdleV /\ IdleI /\ InitC /\ IdleR /\ IdleM /\ IdleD /\ IdleK /\ IdleY

SpecConfig == InitConfig /\ [][NextC]_vars

\* one run of resume_to_pinecone.py main
InitResume == IdleB /\ IdleU /\ IdleV /\ IdleI /\ IdleC /\ InitR /\ IdleM /\ IdleD /\ IdleK /\ IdleY

SpecResume == InitResume /\ [][NextR]_vars

\* the same run of the single-threaded script, which takes its next step
\* whenever it has one
SpecResumeFair == InitResume /\ [][NextR]_vars /\ WF_vars(NextR)

\* the results of one query of match_candidates.py
InitMatch == IdleB /\ IdleU /\ IdleV /\ IdleI /\ IdleC /\ IdleR /\ InitM /\ IdleD /\ IdleK /\ IdleY

SpecMatch == InitMatch /\ [][NextM]_vars

\* deterministic_candidate_id called in two runs
InitCandId == IdleB /\ IdleU /\ IdleV /\ IdleI /\ IdleC /\ IdleR /\ IdleM /\ InitD /\ IdleK /\ IdleY

SpecCandId == InitCandId /\ [][NextD]_vars

\* cosine_sim on a pair of vectors, both ways round, and on a vector and itself
InitCosine ==
    IdleB /\ IdleU /\ IdleV /\ IdleI /\ IdleC /\ IdleR /\ IdleM /\ IdleD /\ InitK /\ IdleY

SpecCosine == InitCosine /\ [][NextK]_vars

\* one run of list_candidate_vectors.py over the fetched vectors
InitAggregate == IdleW /\ InitA /\ IdleJ /\ IdleN /\ IdleT /\ IdleP

SpecAggregate == InitAggregate /\ [][NextA]_vars

\* one reply of the model, recovered and parsed by inspect_jd.py
InitReply == IdleW /\ IdleA /\ InitJ /\ IdleN /\ IdleT /\ IdleP

SpecReply == InitReply /\ [][NextJ]_vars

\* one parsed reply, normalised, printed and saved by inspect_jd.py
InitNormalize == IdleW /\ IdleA /\ IdleJ /\ InitN /\ IdleT /\ IdleP

SpecNormalize == InitNormalize /\ [][NextN]_vars

\* one call of chunk_text; the interpreter goes on while a statement is left
InitChunk == IdleW /\ IdleA /\ IdleJ /\ IdleN /\ InitT /\ IdleP

SpecChunkFair == InitChunk /\ [][NextT]_vars /\ WF_vars(NextT)

\* upsert_resume_file called twice on one resume file
InitTwice == IdleW /\ IdleA /\ IdleJ /\ IdleN /\ IdleT /\ InitP

SpecTwice == InitTwice /\ [][NextP]_vars


(***************************************************************************)
(* The bucket classifier                                                   *)
(***************************************************************************)
Classified == bucket \in {"H", "S", "R", "N"}

\* C1: for every score and every threshold triple with hired >= shortlist >=
\* rejected the classifier returns one of the four labels H, S, R, N, and it
\* returns H if and only if the score is at least the hired threshold.
C1_OneLabelHiredIff ==
    bucket # "none" =>
        /\ Classified
        /\ (bucket = "H" <=> score >= thr.hired)

C1_Witness == bucket = "H" /\ score > thr.hired /\ thr.hired > thr.shortlist

\* C2 (as amended): the intervals are tried in the order Hired, Shortlisted,
\* Rejected, NonDomain and the first match wins: a score equal to the hired
\* threshold is H, a score equal to the shortlist threshold and below the hired
\* threshold is S, a score below the shortlist threshold and at most the rejected
\* threshold is R, and N is returned if and only if rejected < score < shortlist.
C2_FirstMatchWins ==
    bucket # "none" =>
        /\ (score = thr.hired => bucket = "H")
        /\ (score = thr.shortlist /\ score < thr.hired => bucket = "S")
        /\ (score >= thr.shortlist /\ score < thr.hired => bucket = "S")
        /\ (score < thr.shortlist /\ score <= thr.rejected => bucket = "R")
        /\ (bucket = "N" <=> (thr.rejected < score /\ score < thr.shortlist))

\* the boundary of the worked example: 0.75 under 0.75 / 0.55 / 0.30 is Hired
C2_Witness ==
    /\ thr = ConfiguredThresholds
    /\ \/ score = HIRED_THRESHOLD /\ bucket = "H"
       \/ score = SHORTLIST_THRESHOLD /\ bucket = "S"

\* C2 as stated: a score equal to the shortlist threshold is always
\* Shortlisted, also when the shortlist and hired thresholds coincide.
C2_AsStated ==
    bucket # "none" =>
        /\ (score = thr.hired => bucket = "H")
        /\ (score = thr.shortlist => bucket = "S")
        /\ (bucket = "N" <=> (thr.rejected < score /\ score < thr.shortlist))

\* C3 (as amended): a score that is at most the rejected threshold and below
\* the shortlist threshold is classified Rejected.
C3_RejectedAtOrBelow ==
    bucket # "none" /\ score <= thr.rejected /\ score < thr.shortlist => bucket = "R"

C3_Witness ==
    bucket = "R" /\ score = thr.rejected /\ thr.rejected < thr.shortlist

\* C3 as stated: every score that is at most the rejected threshold is
\* classified Rejected, equal thresholds allowed.
C3_AsStated == bucket # "none" /\ score <= thr.rejected => bucket = "R"


(***************************************************************************)
(* unify_resumes                                                           *)
(***************************************************************************)
\* the original records whose id is no longer in the namespace
Removed == {i \in DOMAIN ns0 : i \notin DOMAIN ns}

FoundSet == {found_ids[k] : k \in 1..Len(found_ids)}

\* C4 (as amended): no original record is deleted unless the run was started
\* with --delete-old and the line entered at the prompt, stripped of leading
\* and trailing whitespace, is DELETE; otherwise every original id is retained.
C4_DeleteOnlyConfirmed ==
    Removed # {} => delete_old /\ Strip(confirm) = "DELETE"

C4_Witness ==
    /\ pcU = "done" /\ Removed # {} /\ delete_old /\ confirm = "DELETE"
    /\ Len(upserted) > 0

\* C4 as stated: records are deleted only when the input is exactly DELETE.
C4_AsStated ==
    Removed # {} => delete_old /\ confirm = "DELETE"

\* C5: an original record is deleted only after its vector values were
\* upserted under the canonical id: a failed upsert batch ends the run with
\* nothing deleted, and after a completed run with confirmed deletion the
\* values of every original record that matched the prefix are still in the
\* namespace in a record whose candidate_id is the canonical id.
C5_ValuesSurviveDeletion ==
    /\ (pcU = "exit1" => Removed = {})
    /\ (Removed # {} => \A i \in FoundSet : \E k \in 1..Len(upserted) : upserted[k].old = i)
    /\ (pcU = "done" /\ delete_old /\ Confirmed(confirm) =>
          \A i \in FoundSet :
             \E j \in DOMAIN ns :
                /\ <<"candidate_id", to_id>> \in ns[j].metadata
                /\ ns[j].values = ns0[i].values)

\* C6: an old id that contains the marker _chunk is rewritten to the
\* canonical id followed by everything of the old id from its first _chunk
\* marker onward.
C6_ChunkSuffixKept ==
    \A k \in 1..Len(upserted) :
       Contains(upserted[k].old, "_chunk") =>
          upserted[k].id =
             to_id \o SubSeq(upserted[k].old, Find(upserted[k].old, "_chunk"),
                             Len(upserted[k].old))

\* the worked example: cand1_chunk2_skills to cand_final_chunk2_skills
C6_Witness ==
    \E k \in 1..Len(upserted) :
       /\ upserted[k].old = "cand1_chunk2_skills"
       /\ upserted[k].id = "cand_final_chunk2_skills"

\* C7: an old id without the marker _chunk is rewritten by replacing the old
\* prefix it starts with by the canonical id; what follows the prefix is kept.
C7_PrefixReplacedOnce ==
    \A k \in 1..Len(upserted) :
       ~Contains(upserted[k].old, "_chunk") =>
          /\ StartsWith(upserted[k].old, from_pref)
          /\ upserted[k].id =
                to_id \o SubSeq(upserted[k].old, Len(from_pref) + 1, Len(upserted[k].old))

\* the worked example (cand1 to cand_final) and an id that repeats the prefix
C7_Witness ==
    /\ \E k \in 1..Len(upserted) :
          upserted[k].old = "cand1" /\ upserted[k].id = "cand_final"
    /\ \E k \in 1..Len(upserted) :
          upserted[k].old = "cand1_cand1" /\ upserted[k].id = "cand_final_cand1"

C9_RewriteIsRebuild ==
    rewritten # "" => rewritten = BuildVectorId(target, chunk_index, section)


(***************************************************************************)
(* Failed writes                                                           *)
(***************************************************************************)
\* C10: when an upsert fails in an ingestion script the run aborts at once:
\* no upsert is issued after a failed one.
C10_NoWriteAfterFailedWrite ==
    \A k \in 1..Len(writeLog) : ~writeLog[k].ok => k = Len(writeLog)

(***************************************************************************)
(* Configuration errors                                                    *)
(***************************************************************************)
\* C11: when a credential or identifier the script needs (the vector-store
\* key, the index name, the embedding / LLM key) is missing, no call to the
\* vector store, the embedding service or the completion service is made,
\* and the script ends by reporting it with a non-zero exit status.
C11_MissingConfigIsFatal ==
    Missing(cfgScript, env) =>
        /\ calls = <<>>
        /\ pcC = "exited" => (reported /\ status > 0)

(***************************************************************************)
(* resume_to_pinecone.py: malformed records and the embedding retry        *)
(***************************************************************************)
MalformedFiles == {i \in 1..Len(files) : Malformed(files[i])}

Reported(i) == \E k \in 1..Len(printed) : printed[k] = [kind |-> "error", file |-> i]

SummaryPrinted == \E k \in 1..Len(printed) : printed[k].kind = "summary"

\* C12: a malformed input record (unparseable JSON, or no candidate_id) is
\* reported for that record only and the run goes on with the other records
\* whatever the position of the malformed one: the run is never ended by a
\* malformed record, and when it is over every well-formed record was
\* upserted, every malformed one was reported, and a summary of the skipped
\* records was printed.
C12_MalformedRecordSkipped ==
    /\ pcR # "crashed"
    /\ pcR = "done" =>
          /\ upsertedFiles = (1..Len(files)) \ MalformedFiles
          /\ \A i \in MalformedFiles : Reported(i)
          /\ MalformedFiles # {} => SummaryPrinted

RunOver == pcR \in {"done", "crashed"}

\* C13: when the embedding service fails on every call the retry loop of
\* get_embeddings_batch gives up after finitely many attempts, so the run
\* comes to its end.
C13_RetryGivesUp == embedDown ~> RunOver

(***************************************************************************)
(* match_candidates.py: the results                                        *)
(***************************************************************************)
\* C14: every result carries a score, and its bucket is the classifier
\* applied to the score the result reports; so two results that report the
\* same score carry the same bucket.
C14_BucketOfReportedScore ==
    /\ \A i \in 1..Len(results) :
          results[i].bucket = Bucket(results[i].score, MatchThresholds)
    /\ \A i, j \in 1..Len(results) :
          results[i].score = results[j].score => results[i].bucket = results[j].bucket

(***************************************************************************)
(* upload_to_pinecone.py: the candidate identifier                         *)
(***************************************************************************)
AllCharsIn(s, allowed) == \A i \in 1..Len(s) : Contains(allowed, SubSeq(s, i, i))

\* the longest identifier: "resumes_", a slug, "_" and the hex digits
IdMaxLen == Len("resumes_") + SlugMax + 1 + HexLen

\* the last hex digits of an identifier
Suffix(id) == SubSeq(id, Len(id) - HexLen + 1, Len(id))

\* C15 (as amended): every identifier returned by deterministic_candidate_id,
\* for every strategy, name, email and content, consists only of lowercase
\* ASCII letters, digits, the underscore and the hyphen.
C15_IdCharset ==
    /\ AllCharsIn(idA, LowerCase \o Digits \o "_-")
    /\ AllCharsIn(idB, LowerCase \o Digits \o "_-")

\* an identifier with a hyphen kept from the name
C15_Witness ==
    /\ method \in {"email", "name"}
    /\ Contains(idA, "-")
    /\ idA = "resumes_jean-luc_picard_" \o Suffix(idA)

\* C15 as stated: only lowercase ASCII letters, digits and the underscore.
C15_AsStated ==
    /\ AllCharsIn(idA, LowerCase \o Digits \o "_")
    /\ AllCharsIn(idB, LowerCase \o Digits \o "_")

\* C16 (as amended): every identifier returned by deterministic_candidate_id
\* has at most 79 characters (8 of the prefix, at most 64 of the slug, the
\* underscore and 6 hex digits), for every strategy and names and emails of
\* any length, because slugs are cut at 64 characters.
C16_IdLength == Len(idA) <= IdMaxLen /\ Len(idB) <= IdMaxLen

\* a name whose slug is cut: the identifier has the greatest length
C16_Witness ==
    /\ Len(objA.name) > SlugMax
    /\ method \in {"email", "name"}
    /\ Len(idA) = IdMaxLen

\* C16 as stated: every identifier is shorter than 70 characters.
C16_AsStated == Len(idA) < 70 /\ Len(idB) < 70

\* C17: under the content-hash strategy two calls on the same input return
\* the same identifier, whatever uuid4 would give to each call.
C17_ContentHashDeterministic ==
    (method = "content_hash" /\ objA = objB /\ idA # "" /\ idB # "") => idA = idB

C17_Witness ==
    /\ method = "content_hash" /\ objA = objB
    /\ idA # "" /\ idB = idA
    /\ idA = "resumes_" \o Suffix(idA)

\* two inputs of the email strategy with one email and two names
EmailPair ==
    /\ method = "email" /\ idA # "" /\ idB # ""
    /\ objA.email # "" /\ objA.email = objB.email
    /\ objA.name # "" /\ objB.name # "" /\ objA.name # objB.name

\* C18: under the email strategy two inputs with the same email and different
\* names get identifiers with the same suffix, the hash of the email, and the
\* two identifiers differ whenever the slugs of the two names differ.
C18_EmailSuffixShared ==
    EmailPair =>
        /\ Suffix(idA) = ShortHex(objA.email)
        /\ Suffix(idB) = ShortHex(objA.email)
        /\ Slugify(objA.name) # Slugify(objB.name) => idA # idB

C18_Witness ==
    /\ EmailPair
    /\ Slugify(objA.name) # Slugify(objB.name)
    /\ Suffix(idA) = Suffix(idB)
    /\ idA # idB

(***************************************************************************)
(* match_candidates_llm_v2.py: cosine_sim                                  *)
(***************************************************************************)
ZeroMagnitude(a) == ~a.none /\ NormSq(a.v) = 0

\* two results are the same number, or both an exception
SameValue(x, y) ==
    /\ x.raised = y.raised
    /\ ~x.raised =>
          /\ (x.num > 0) = (y.num > 0)
          /\ (x.num < 0) = (y.num < 0)
          /\ x.num * x.num * y.den2 = y.num * y.num * x.den2

\* the result is the number 1
IsOne(x) == ~x.raised /\ x.num > 0 /\ x.num * x.num = x.den2

\* C19: whenever either vector is None or either has zero magnitude,
\* cosine_sim returns the sentinel -1.0 and raises no error.
C19_SentinelOnDegenerate ==
    ("ab" \in computed /\ (va.none \/ vb.none \/ ZeroMagnitude(va) \/ ZeroMagnitude(vb)))
        => sim = Sentinel

\* a zero vector against a non-zero one of another length, with numpy
C19_Witness ==
    /\ "ab" \in computed /\ has_np
    /\ ZeroMagnitude(va) /\ Len(va.v) > 0
    /\ ~vb.none /\ ~ZeroMagnitude(vb) /\ Len(vb.v) # Len(va.v)
    /\ sim = Sentinel

\* C20: for vectors a and b of equal dimension cosine_sim(a, b) is
\* cosine_sim(b, a), and cosine_sim(a, a) is 1 for every non-zero a.
C20_SymmetricAndSelfOne ==
    /\ ({"ab", "ba"} \subseteq computed /\ ~va.none /\ ~vb.none /\ Len(va.v) = Len(vb.v))
          => SameValue(sim, simRev)
    /\ ("aa" \in computed /\ ~va.none /\ ~ZeroMagnitude(va)) => IsOne(simSelf)

\* two non-zero vectors of different norms, at an angle
C20_Witness ==
    /\ computed = {"ab", "ba", "aa"}
    /\ ~va.none /\ ~vb.none /\ Len(va.v) = Len(vb.v)
    /\ NormSq(va.v) # NormSq(vb.v) /\ NormSq(va.v) > 0 /\ NormSq(vb.v) > 0
    /\ ~sim.raised /\ sim.num # 0 /\ sim.num * sim.num # sim.den2
    /\ SameValue(sim, simRev)
    /\ IsOne(simSelf)

(***************************************************************************)
(* list_candidate_vectors.py: the groups                                   *)
(***************************************************************************)
\* the ids of the group reported at place g
GroupIds(g) == {report[g].vids[k] : k \in 1..Len(report[g].vids)}

\* C21: each fetched chunk id is in the group named by the candidate_id of
\* its metadata or, when that is absent, by the part of the id before
\* _chunk, and the groups are reported in descending order of chunk count;
\* the ids x_chunk1_summary, x_chunk2_skills, y_chunk1_summary give group x
\* with count 2 followed by group y with count 1.
C21_GroupedAndSorted ==
    pcA = "done" =>
        /\ \A k \in 1..Len(fetched) :
              \E g \in 1..Len(report) :
                  /\ fetched[k].id \in GroupIds(g)
                  /\ report[g].cid =
                        IF fetched[k].candidate_id # "" THEN fetched[k].candidate_id
                        ELSE BeforeFirst(fetched[k].id, "_chunk")
        /\ \A g, h \in 1..Len(report) :
              g < h => Len(report[g].vids) >= Len(report[h].vids)
        /\ ({fetched[k] : k \in 1..Len(fetched)} =
               {[id |-> i, candidate_id |-> ""] :
                   i \in {"x_chunk1_summary", "x_chunk2_skills", "y_chunk1_summary"}})
              => /\ Len(report) = 2
                 /\ report[1].cid = "x" /\ Len(report[1].vids) = 2
                 /\ report[2].cid = "y" /\ Len(report[2].vids) = 1

\* the chunk of y is fetched first and its group is reported last
C21_Witness ==
    /\ pcA = "done"
    /\ Len(fetched) = 3 /\ fetched[1] = [id |-> "y_chunk1_summary", candidate_id |-> ""]
    /\ Len(mapping) = 2 /\ mapping[1].cid = "y"
    /\ report = <<[cid |-> "x", vids |-> report[1].vids], [cid |-> "y", vids |-> <<"y_chunk1_summary">>]>>
    /\ Len(report[1].vids) = 2

(***************************************************************************)
(* Claims on clean_gpt_response and safe_json_load                         *)
(***************************************************************************)
\* safe_json_load has returned or raised
Loaded == pcJ \in {"parsed", "except", "raised"}

\* the reply without the white space around it
Trimmed == RStrip(LStrip(raw))

\* the places of the opening and of the closing brackets of the trimmed reply
OpenerPlaces == {q \in 1..Len(Trimmed) : CharAt(Trimmed, q) \in {"{", "["}}
CloserPlaces == {q \in 1..Len(Trimmed) : CharAt(Trimmed, q) \in {"}", "]"}}
FirstOpenerPlace == CHOOSE q \in OpenerPlaces : \A r \in OpenerPlaces : q <= r
LastCloserPlace == CHOOSE q \in CloserPlaces : \A r \in CloserPlaces : q >= r

\* C22: for every reply that starts with a fence marker, clean_gpt_response
\* removes the leading fence with its language tag and the trailing fence and
\* returns the inner text trimmed, so that the result holds no fence marker.
C22_NoFenceLeft ==
    (Loaded /\ StartsWith(Trimmed, Fence)) => ~Contains(cleaned, Fence)

\* C23 as stated: for every reply that does not start with a fence and holds
\* an opening and a closing bracket, clean_gpt_response returns the substring
\* from the first opening bracket to the last closing bracket, both included.
C23_AsStated ==
    (Loaded /\ ~StartsWith(Trimmed, Fence) /\ OpenerPlaces # {} /\ CloserPlaces # {}) =>
        /\ cleaned # ""
        /\ CharAt(cleaned, 1) = CharAt(Trimmed, FirstOpenerPlace)
        /\ CharAt(cleaned, Len(cleaned)) = CharAt(Trimmed, LastCloserPlace)
        /\ Len(cleaned) = LastCloserPlace - FirstOpenerPlace + 1

\* C23: for every reply that does not start with a fence and holds an opening
\* and a closing bracket, clean_gpt_response returns the substring from the
\* first opening bracket to the last closing bracket, both included, when
\* the last closing bracket lies behind the first opening bracket, and the
\* empty text when it lies in front of it; the reply
\* Here is the result: [{"a":1}] Thanks! gives [{"a":1}].
C23_SliceOrEmpty ==
    (Loaded /\ ~StartsWith(Trimmed, Fence) /\ OpenerPlaces # {} /\ CloserPlaces # {}) =>
        /\ LastCloserPlace > FirstOpenerPlace =>
              cleaned = SubSeq(Trimmed, FirstOpenerPlace, LastCloserPlace)
        /\ LastCloserPlace < FirstOpenerPlace => cleaned = ""
        /\ raw = "Here is the result: [{\"a\":1}] Thanks!" => cleaned = "[{\"a\":1}]"

\* the reply of the claim has been recovered and parsed
C23_Witness ==
    /\ pcJ = "parsed"
    /\ raw = "Here is the result: [{\"a\":1}] Thanks!"
    /\ cleaned = "[{\"a\":1}]"
    /\ attempts = <<cleaned>>

\* C24 as stated: for every reply without a bracket, clean_gpt_response
\* returns the original text unchanged and safe_json_load fails on it with
\* a decode error that reaches the caller.
C24_AsStated ==
    (Loaded /\ OpenerPlaces = {} /\ CloserPlaces = {}) =>
        /\ cleaned = raw
        /\ pcJ # "parsed"

\* C24: for every reply without a bracket that does not start with a fence,
\* clean_gpt_response returns the reply without the white space around it,
\* safe_json_load makes its single attempt on that text, and the decode
\* error reaches the caller exactly when that text is not a JSON value.
C24_TrimmedAndFailsUnlessJson ==
    (Loaded /\ ~StartsWith(Trimmed, Fence) /\ OpenerPlaces = {} /\ CloserPlaces = {}) =>
        /\ cleaned = Trimmed
        /\ attempts = <<Trimmed>>
        /\ (pcJ # "parsed") <=> ~JsonOk(Trimmed)

\* a reply in prose, followed by a newline, has failed to parse and the
\* failure has reached main
C24_Witness ==
    /\ pcJ = "raised"
    /\ raw = "No candidates found.\n"
    /\ cleaned = "No candidates found."
    /\ attempts = <<cleaned>>

\* C25: safe_json_load parses the recovered text first; only if that fails
\* it searches the original reply for a {...} or [...] block and parses that;
\* if both attempts fail the error reaches the caller, the raw reply is
\* printed, and the model is not called again.
C25_RecoveredThenBlockThenRaise ==
    Loaded =>
        /\ Len(attempts) \in {1, 2}
        /\ attempts[1] = cleaned
        /\ Len(attempts) = 2 =>
              /\ ~JsonOk(attempts[1])
              /\ attempts[2] # "" /\ attempts[2] = RegexBlock(raw)
        /\ pcJ = "parsed" => JsonOk(attempts[Len(attempts)])
        /\ pcJ # "parsed" =>
              /\ \A k \in 1..Len(attempts) : ~JsonOk(attempts[k])
              /\ RegexBlock(raw) = "" \/ ~JsonOk(RegexBlock(raw))
        /\ pcJ = "raised" => printedRaw = <<raw>>
        /\ pcJ # "raised" => printedRaw = <<>>
        /\ llmCalls = 1

\* both attempts were made on different texts, both failed, and the raw
\* reply was printed
C25_Witness ==
    /\ pcJ = "raised"
    /\ Len(attempts) = 2 /\ attempts[1] # attempts[2]
    /\ printedRaw = <<raw>>
    /\ llmCalls = 1

(***************************************************************************)
(* Claims on the results list of inspect_jd.py                             *)
(***************************************************************************)
\* the parsed reply is an object with a list under evaluations or results
HasListField ==
    parsed.value.kind = "dict"
    /\ (parsed.evaluations.kind = "list" \/ parsed.results.kind = "list")

\* C26: after a reply was parsed, the results list is the parsed value when
\* that is a list, or the list under the key evaluations or results when it
\* is an object; every other shape gives an empty results list and the run
\* ends without an error.
C26_ListOrEmptyNoError ==
    pcN \in {"print", "saved", "error"} =>
        /\ parsed.value.kind = "list" => parsed_list = parsed.value
        /\ HasListField =>
              /\ parsed_list.kind = "list"
              /\ parsed_list \in {parsed.evaluations, parsed.results}
        /\ (parsed.value.kind # "list" /\ ~HasListField) =>
              /\ parsed_list = EmptyList
              /\ pcN # "error"

(***************************************************************************)
(* Claims on the ids written by unify_resumes.py                           *)
(***************************************************************************)
\* C27: within one run the mapping from old id to new id is injective: two
\* distinct old ids that match the from-prefix are never rewritten to the
\* same new id, so no upserted record overwrites another one of the run.
C27_NewIdsInjective ==
    \A j, k \in 1..Len(upserted) :
        upserted[j].old # upserted[k].old => upserted[j].id # upserted[k].id

\* C28: a run leaves every record that existed before it and whose id does
\* not start with the from-prefix unchanged: it is neither overwritten by
\* an upsert nor deleted.
C28_OtherRecordsUntouched ==
    \A i \in DOMAIN ns0 :
        ~StartsWith(i, from_pref) => (i \in DOMAIN ns /\ ns[i] = ns0[i])

(***************************************************************************)
(* Claims on chunk_text                                                    *)
(***************************************************************************)
\* every word is in a chunk, and every chunk is a run of consecutive words
\* of the text in their order
WordsCovered ==
    /\ \A k \in 1..Len(words) :
          \E c \in 1..Len(chunks) :
              \E a \in 1..k : \E b \in k..Len(words) :
                  chunks[c] = JoinSeq(SubSeq(words, a, b), " ")
    /\ \A c \in 1..Len(chunks) :
          \/ chunks[c] = ""
          \/ \E a \in 1..Len(words) : \E b \in a..Len(words) :
                chunks[c] = JoinSeq(SubSeq(words, a, b), " ")

C30_NoOverwriteIdempotent ==
    /\ \A i \in DOMAIN pstore0 : i \in DOMAIN pstore /\ pstore[i] = pstore0[i]
    /\ \A k \in 1..Len(upsertLog) :
          /\ upsertLog[k].id \notin DOMAIN pstore0
          /\ \A j \in 1..Len(upsertLog) : upsertLog[j].id = upsertLog[k].id => j = k
    /\ (prun = 2 /\ firstReturned) =>
          /\ pstore = afterFirst
          /\ \A k \in 1..Len(upsertLog) : upsertLog[k].run = 1

\* the file has three chunks, the first was in the namespace and was left
\* alone, the others were written by the first run, and the second run is over
C30_Witness ==
    /\ pcP = "done" /\ firstReturned
    /\ file_cid = "c1" /\ nchunks = 3
    /\ "c1_chunk1" \in DOMAIN pstore0 /\ "c1_chunk2" \notin DOMAIN pstore0
    /\ pstore["c1_chunk1"].by = 0
    /\ pstore["c1_chunk2"].by = 1 /\ pstore["c1_chunk3"].by = 1
    /\ Len(upsertLog) = 2
    /\ pstore = afterFirst

====
